---- MODULE Spec2Model ----
(***************************************************************************)
(* A model of the segyio core (lib/src/segy.c) and of the inspector that   *)
(* drives it (applications/segyinspect.c): the file handle with its        *)
(* buffered and memory-mapped back ends, trace addressing, and the         *)
(* geometry layer that infers sorting, offsets, line counts, line indices  *)
(* and reads whole lines.                                                  *)
(*                                                                         *)
(* A file is held at trace granularity: its binary header fields, its size *)
(* in bytes, and for every whole trace the header fields the library reads *)
(* and the sample payload.  Byte positions are exact.  64-bit C values     *)
(* (long long, size_t, the stream position) are held as four 16-bit limbs, *)
(* most significant first, because the model checker's integers are 32 bit.*)
(***************************************************************************)
EXTENDS Integers, Sequences, FiniteSets, TLC

VARIABLES
    file,       \* the SEG-Y file on disk
    platform,   \* the build: width of long, HAVE_MMAP, and what lies past a mapping
    fp,         \* the segy_file handle the operations work on
    fm,         \* a second handle on the same file (upgraded with segy_mmap)
    pc,         \* position of the inspector's main, or "client"
    insp,       \* the inspector's local variables
    call,       \* the last library call of the client: arguments and results
    os          \* the streams and mappings the process has asked the system for

vars == <<file, platform, fp, fm, pc, insp, call, os>>

----------------------------------------------------------------------------
(* Bounds of the model *)

MaxExt == 1          \* extended text headers declared by the binary header
MaxSamples == 1      \* samples per trace declared by the binary header
MaxIOTraces == 1     \* whole traces of the files of the I/O specification
MaxPartial == 1      \* bytes of an unfinished trace at the end of such a file
MaxTail == 16        \* bytes a sized file is longer or shorter than its traces
MaxDim == 2          \* inlines, crosslines, offsets of a well-formed cube
MaxArbTraces == 3    \* traces of a file with arbitrary headers
MaxHdr == 2          \* largest value a header field of such a file holds
MaxLineNo == 3       \* largest line number the client asks for
MaxOpens == 2        \* files a client opens on one file object
MaxMaps == 2         \* regions a client's mmap requests obtain
MaxLineTraces == 4   \* traces of a file whose lines are written and read back

----------------------------------------------------------------------------
(* Program constants *)

SEGY_TEXT_HEADER_SIZE == 3200
SEGY_BINARY_HEADER_SIZE == 400
SEGY_TRACE_HEADER_SIZE == 240

INLINE_3D == 189
CROSSLINE_3D == 193
offset == 37

SEGY_OK == "SEGY_OK"
SEGY_FSEEK_ERROR == "SEGY_FSEEK_ERROR"
SEGY_FREAD_ERROR == "SEGY_FREAD_ERROR"
SEGY_INVALID_FIELD == "SEGY_INVALID_FIELD"
SEGY_INVALID_SORTING == "SEGY_INVALID_SORTING"
SEGY_MISSING_LINE_INDEX == "SEGY_MISSING_LINE_INDEX"
SEGY_TRACE_SIZE_MISMATCH == "SEGY_TRACE_SIZE_MISMATCH"
SEGY_MMAP_ERROR == "SEGY_MMAP_ERROR"
SEGY_MMAP_INVALID == "SEGY_MMAP_INVALID"
SEGY_FWRITE_ERROR == "SEGY_FWRITE_ERROR"
SEGY_INVALID_ARGS == "SEGY_INVALID_ARGS"

\* not a return value: the process was ended by a signal inside the call
Fault == "fault"

UNKNOWN_SORTING == "UNKNOWN_SORTING"
CROSSLINE_SORTING == "CROSSLINE_SORTING"
INLINE_SORTING == "INLINE_SORTING"

\* a local of the C code: e is computed once and named in F
With(e, F(_)) == F(e)

----------------------------------------------------------------------------
(* 64-bit two's complement values as limbs <<l3, l2, l1, l0>>, base 2^16 *)

L16 == 256 * 256
HalfL16 == L16 \div 2

\* (long long)n for an int or long n the checker can hold
S64(n) ==
    IF n >= 0 THEN <<0, 0, n \div L16, n % L16>>
    ELSE <<L16 - 1, L16 - 1, (n \div L16) % L16, n % L16>>

Zero64 == <<0, 0, 0, 0>>

IsNeg64(a) == a[1] >= HalfL16

\* a + b modulo 2^64
Add64(a, b) ==
    LET s0 == a[4] + b[4]
        s1 == a[3] + b[3] + (s0 \div L16)
        s2 == a[2] + b[2] + (s1 \div L16)
        s3 == a[1] + b[1] + (s2 \div L16)
    IN <<s3 % L16, s2 % L16, s1 % L16, s0 % L16>>

\* -a modulo 2^64
Neg64(a) ==
    Add64(<<L16 - 1 - a[1], L16 - 1 - a[2], L16 - 1 - a[3], L16 - 1 - a[4]>>,
          <<0, 0, 0, 1>>)

Sub64(a, b) == Add64(a, Neg64(b))

\* a * m modulo 2^64, for 0 <= m < 2^15 (every trace size of the model)
Mul64(a, m) ==
    LET p0 == a[4] * m
        p1 == a[3] * m + (p0 \div L16)
        p2 == a[2] * m + (p1 \div L16)
        p3 == a[1] * m + (p2 \div L16)
    IN <<p3 % L16, p2 % L16, p1 % L16, p0 % L16>>

\* unsigned a / m and a % m, for 0 < m < 2^15
DivMod64(a, m) ==
    LET t3 == a[1]
        t2 == (t3 % m) * L16 + a[2]
        t1 == (t2 % m) * L16 + a[3]
        t0 == (t1 % m) * L16 + a[4]
    IN [quot |-> <<t3 \div m, t2 \div m, t1 \div m, t0 \div m>>, rem |-> t0 % m]

\* unsigned a >= n, for an n >= 0 the checker can hold
GeqU64(a, n) ==
    \/ a[1] > 0
    \/ a[2] > 0
    \/ a[3] > (n \div L16)
    \/ a[3] = (n \div L16) /\ a[4] >= (n % L16)

\* the low 32 bits as a signed value: the conversion to a 32-bit long or int
Low32(a) ==
    IF a[3] >= HalfL16 THEN (a[3] - L16) * L16 + a[4] ELSE a[3] * L16 + a[4]

\* the value, where it is one the checker can hold
Val(a) == Low32(a)

\* LONG_MAX of the 32-bit long of LLP64
LONG_MAX_32 == <<0, 0, HalfL16 - 1, L16 - 1>>

\* signed a >= b
GeqS64(a, b) == ~IsNeg64(Sub64(a, b))

----------------------------------------------------------------------------
(* The file *)

\* The headers of the file model are kept decoded: what segy_get_bfield
\* delivers for a field of the binary header, the field given by name
BinField(binheader, field) == binheader[field]

\* what segy_get_field delivers for a field of a trace header a read has
\* filled, the field given by byte offset
HeaderField(header, field) == header.hdr[field]

\* The byte offsets the field names of segy.h stand for, by the width the
\* tables give them.  SourceMeasurementMantissa (225) has width 2 and
\* SourceMeasurementExponent (229) width 4 in field_size.
TraceFields4 ==
    {1, 5, 9, 13, 17, 21, 25, 37, 41, 45, 49, 53, 57, 61, 65, 73, 77,
     81, 85, 181, 185, 189, 193, 197, 205, 219, 229, 233, 237}

TraceFields2 ==
    {29, 31, 33, 35, 69, 71, 89, 91, 93, 95, 97, 99, 101, 103, 105,
     107, 109, 111, 113, 115, 117, 119, 121, 123, 125, 127, 129, 131,
     133, 135, 137, 139, 141, 143, 145, 147, 149, 151, 153, 155, 157,
     159, 161, 163, 165, 167, 169, 171, 173, 175, 177, 179, 201, 203,
     209, 211, 213, 215, 217, 223, 225, 231}

\* BIN_ names of the binary header; BinFields0 are BIN_Unassigned1 and
\* BIN_Unassigned2, entered with width 0
BinFields4 == {3201, 3205, 3209}

BinFields2 ==
    {3213, 3215, 3217, 3219, 3221, 3223, 3225, 3227, 3229, 3231, 3233,
     3235, 3237, 3239, 3241, 3243, 3245, 3247, 3249, 3251, 3253, 3255,
     3257, 3259, 3501, 3503, 3505}

BinFields0 == {3261, 3507}

\* field_size[ field ] for an index inside the table; entries the
\* initialiser does not name are 0
field_size(field) ==
    IF field \in TraceFields4 THEN 4 ELSE IF field \in TraceFields2 THEN 2 ELSE 0

HEADER_SIZE == SEGY_TEXT_HEADER_SIZE

\* bfield_size[ field ], the index being the byte offset less HEADER_SIZE
bfield_size(field) ==
    IF field + HEADER_SIZE \in BinFields4 THEN 4
    ELSE IF field + HEADER_SIZE \in BinFields2 THEN 2 ELSE 0

\* an array with designated initialisers ends at its largest designator
Entries(designators) ==
    1 + CHOOSE m \in designators : \A d \in designators : d <= m

field_size_table ==
    [i \in 0..(Entries(TraceFields4 \cup TraceFields2) - 1) |-> field_size(i)]

bfield_size_table ==
    [i \in 0..(Entries({ d - HEADER_SIZE :
                            d \in BinFields4 \cup BinFields2 \cup BinFields0 }) - 1)
        |-> bfield_size(i)]

segy_samples(binheader) == BinField(binheader, "Samples")

segy_trace_bsize(samples) == samples * 4

segy_trace0(binheader) ==
    SEGY_TEXT_HEADER_SIZE + SEGY_BINARY_HEADER_SIZE +
        SEGY_TEXT_HEADER_SIZE * BinField(binheader, "ExtendedHeaders")

\* the layout the file was written with
Trace0Of(f) == segy_trace0(f.bin)
BSizeOf(f) == segy_trace_bsize(segy_samples(f.bin))
TraceLen(f) == SEGY_TRACE_HEADER_SIZE + BSizeOf(f)
WholeTraces(f) == Len(f.traces)

\* what fread or memcpy deliver for the n bytes at position p, all inside the file
FileBytes(f, p, n) ==
    LET rel == p - Trace0Of(f)
        k   == rel \div TraceLen(f)
        o   == rel % TraceLen(f)
    IN IF p = 0 /\ n = SEGY_TEXT_HEADER_SIZE /\ "text" \in DOMAIN f
       THEN [kind |-> "text", text |-> f.text[0]]
       ELSE IF rel >= 0 /\ k < WholeTraces(f) /\ o = 0
               /\ n = SEGY_TRACE_HEADER_SIZE
       THEN [kind |-> "header", trace |-> k, hdr |-> f.traces[k + 1].hdr]
       ELSE IF rel >= 0 /\ k < WholeTraces(f) /\ o = SEGY_TRACE_HEADER_SIZE
               /\ n = BSizeOf(f)
       THEN [kind |-> "samples", trace |-> k, data |-> f.traces[k + 1].data]
       ELSE [kind |-> "raw", from |-> p, len |-> n]

\* a caller's buffer no read has filled
Untouched == [kind |-> "untouched"]

\* the floats of a sample buffer a read has filled
SamplesOf(buf) == IF buf.kind = "samples" THEN buf.data ELSE <<>>

----------------------------------------------------------------------------
(* The handle and the C library beneath it *)

\* struct segy_file_handle after segy_open
segy_open(mode) ==
    [open |-> TRUE, addr |-> FALSE, cur |-> 0, fsize |-> 0, pos |-> Zero64,
     mode |-> mode]

NoHandle ==
    [open |-> FALSE, addr |-> FALSE, cur |-> 0, fsize |-> 0, pos |-> Zero64,
     mode |-> ""]

\* what the process holds: stream and mapping are the ones the handle in use
\* points to (0 for none); fclosed[i] and unmapped[i] count the fclose calls
\* on the i-th stream fopen returned and the munmap calls on the i-th region
\* mmap returned; failing names the system calls that fail when they are made
Pristine ==
    [stream |-> 0, mapping |-> 0, fclosed |-> <<>>, unmapped |-> <<>>,
     failing |-> {}]

\* fseek( fp, off, SEEK_SET ): a negative position is refused
fseek_set(h, off) ==
    IF IsNeg64(off) THEN [err |-> -1, h |-> h]
    ELSE [err |-> 0, h |-> [h EXCEPT !.pos = off]]

\* fseek( fp, off, SEEK_CUR )
fseek_cur(h, off) == fseek_set(h, Add64(h.pos, off))

rewind(h) == [h EXCEPT !.pos = Zero64]

\* fread( buf, 1, n, fp ): the count read, the bytes, the stream moved on
fread(h, n) ==
    With(IF GeqU64(h.pos, file.size) THEN 0 ELSE file.size - Val(h.pos),
         LAMBDA avail :
    With(IF avail < n THEN avail ELSE n, LAMBDA count :
       [count |-> count,
        buf   |-> IF count = 0 THEN Untouched
                  ELSE IF count = n THEN FileBytes(file, Val(h.pos), n)
                  ELSE [kind |-> "short", from |-> Val(h.pos), len |-> count],
        h     |-> [h EXCEPT !.pos = Add64(h.pos, S64(count))]]))

\* fstat's st_size
file_size(h) == [err |-> 0, size |-> file.size]

\* memcpy( buf, fp->cur, n ) out of the mapping. Bytes past the mapped length
\* are not the file's: the read either faults or delivers what the last page
\* holds; the build and its page size decide, platform.past_mapping says which.
memcpy_from(h, n) ==
    IF n = 0 THEN [fault |-> FALSE, buf |-> Untouched]
    ELSE IF h.cur + n <= h.fsize
    THEN [fault |-> FALSE, buf |-> FileBytes(file, h.cur, n)]
    ELSE IF platform.past_mapping = "fault"
    THEN [fault |-> TRUE, buf |-> Untouched]
    ELSE [fault |-> FALSE,
          buf |-> [kind |-> "past_mapping", from |-> h.cur, len |-> n]]

----------------------------------------------------------------------------
(* File-handle layer *)

segy_binheader(h) ==
    With(fseek_set(h, S64(SEGY_TEXT_HEADER_SIZE)), LAMBDA s :
       IF s.err # 0 THEN [err |-> SEGY_FSEEK_ERROR, h |-> s.h]
       ELSE With(fread(s.h, SEGY_BINARY_HEADER_SIZE), LAMBDA r :
               IF r.count # SEGY_BINARY_HEADER_SIZE
               THEN [err |-> SEGY_FREAD_ERROR, h |-> r.h]
               ELSE [err |-> SEGY_OK, h |-> r.h]))

segy_mmap(h) ==
    IF ~platform.have_mmap THEN [err |-> SEGY_MMAP_INVALID, h |-> h]
    ELSE With([h EXCEPT !.fsize = file_size(h).size], LAMBDA sized :
            IF sized.fsize = 0      \* mmap of length 0 is MAP_FAILED
            THEN [err |-> SEGY_MMAP_ERROR, h |-> sized]
            ELSE [err |-> SEGY_OK, h |-> [sized EXCEPT !.addr = TRUE, !.cur = 0]])

\* the skips of the 32-bit branch; err is the int of the C code, SEGY_OK is 0
RECURSIVE seek_skips(_, _, _)
seek_skips(h, pos, err) ==
    IF GeqS64(pos, LONG_MAX_32) /\ err # 0
    THEN With(fseek_cur(h, LONG_MAX_32), LAMBDA r :
            seek_skips(r.h, Sub64(pos, LONG_MAX_32), r.err))
    ELSE [h |-> h, pos |-> pos, err |-> err]

\* trace is the int the callers' unsigned trace number converts to; asked is
\* the long long the last positioning of the call was given
segy_seek(h, trace, trace0, trace_bsize) ==
    With(trace_bsize + SEGY_TRACE_HEADER_SIZE, LAMBDA bsize :
    With(Add64(S64(trace0), Mul64(S64(trace), bsize)), LAMBDA pos :
       IF h.addr
       THEN IF GeqU64(pos, h.fsize)
            THEN [err |-> SEGY_FSEEK_ERROR, h |-> h, asked |-> pos]
            ELSE [err |-> SEGY_OK, h |-> [h EXCEPT !.cur = Val(pos)],
                  asked |-> pos]
       ELSE IF platform.long = 64
       THEN With(fseek_set(h, pos), LAMBDA r :
               [err |-> IF r.err # 0 THEN SEGY_FSEEK_ERROR ELSE SEGY_OK, h |-> r.h,
                asked |-> pos])
       ELSE With(seek_skips(rewind(h), pos, 0), LAMBDA w :
               IF w.err # 0
               THEN [err |-> SEGY_FSEEK_ERROR, h |-> w.h, asked |-> LONG_MAX_32]
               ELSE With(fseek_cur(w.h, S64(Low32(w.pos))), LAMBDA r :
                       [err |-> IF r.err # 0 THEN SEGY_FSEEK_ERROR ELSE SEGY_OK,
                        h |-> r.h, asked |-> w.pos]))))

segy_traceheader(h, traceno, trace0, trace_bsize) ==
    With(segy_seek(h, traceno, trace0, trace_bsize), LAMBDA s :
       IF s.err # SEGY_OK THEN [err |-> s.err, buf |-> Untouched, h |-> s.h]
       ELSE IF s.h.addr
       THEN With(memcpy_from(s.h, SEGY_TRACE_HEADER_SIZE), LAMBDA m :
               [err |-> IF m.fault THEN Fault ELSE SEGY_OK, buf |-> m.buf,
                h |-> s.h])
       ELSE With(fread(s.h, SEGY_TRACE_HEADER_SIZE), LAMBDA r :
               [err |-> IF r.count # SEGY_TRACE_HEADER_SIZE
                        THEN SEGY_FREAD_ERROR ELSE SEGY_OK,
                buf |-> r.buf, h |-> r.h]))

\* skip_traceheader moving the stream only, never the mapped cursor
skip_traceheader_stream_only(h) ==
    IF h.addr THEN [err |-> SEGY_OK, h |-> h]
    ELSE With(fseek_cur(h, S64(SEGY_TRACE_HEADER_SIZE)), LAMBDA r :
            [err |-> IF r.err # 0 THEN SEGY_FSEEK_ERROR ELSE SEGY_OK, h |-> r.h])

skip_traceheader(h) ==
    IF h.addr
    THEN [err |-> SEGY_OK, h |-> [h EXCEPT !.cur = h.cur + SEGY_TRACE_HEADER_SIZE]]
    ELSE With(fseek_cur(h, S64(SEGY_TRACE_HEADER_SIZE)), LAMBDA r :
            [err |-> IF r.err # 0 THEN SEGY_FSEEK_ERROR ELSE SEGY_OK, h |-> r.h])

\* segy_readtrace taking whatever fread delivered, short or not
readtrace_unchecked(h, traceno, trace0, trace_bsize) ==
    With(segy_seek(h, traceno, trace0, trace_bsize), LAMBDA s :
       IF s.err # SEGY_OK THEN [err |-> s.err, buf |-> Untouched, h |-> s.h]
       ELSE With(skip_traceheader(s.h), LAMBDA k :
       IF k.err # SEGY_OK THEN [err |-> k.err, buf |-> Untouched, h |-> k.h]
       ELSE IF k.h.addr
       THEN With(memcpy_from(k.h, trace_bsize), LAMBDA m :
               [err |-> IF m.fault THEN Fault ELSE SEGY_OK, buf |-> m.buf,
                h |-> k.h])
       ELSE With(fread(k.h, trace_bsize), LAMBDA r :
               [err |-> SEGY_OK, buf |-> r.buf, h |-> r.h])))

segy_readtrace(h, traceno, trace0, trace_bsize) ==
    With(segy_seek(h, traceno, trace0, trace_bsize), LAMBDA s :
       IF s.err # SEGY_OK THEN [err |-> s.err, buf |-> Untouched, h |-> s.h]
       ELSE With(skip_traceheader(s.h), LAMBDA k :
       IF k.err # SEGY_OK THEN [err |-> k.err, buf |-> Untouched, h |-> k.h]
       ELSE IF k.h.addr
       THEN With(memcpy_from(k.h, trace_bsize), LAMBDA m :
               [err |-> IF m.fault THEN Fault ELSE SEGY_OK, buf |-> m.buf,
                h |-> k.h])
       ELSE With(fread(k.h, trace_bsize), LAMBDA r :
               [err |-> IF r.count # trace_bsize THEN SEGY_FREAD_ERROR
                        ELSE SEGY_OK,
                buf |-> r.buf, h |-> r.h])))

\* traces is the size_t written through the out parameter, as limbs
segy_traces(h, trace0, trace_bsize) ==
    With(trace_bsize + SEGY_TRACE_HEADER_SIZE, LAMBDA bsize :
    With(Sub64(S64(file_size(h).size), S64(trace0)), LAMBDA trace_data_size :
    With(DivMod64(trace_data_size, bsize), LAMBDA d :
       IF d.rem # 0 THEN [err |-> SEGY_TRACE_SIZE_MISMATCH, traces |-> Zero64,
                          written |-> FALSE]
       ELSE [err |-> SEGY_OK, traces |-> d.quot, written |-> TRUE])))

----------------------------------------------------------------------------
(* Write paths.  A written file carries, besides the whole traces, the      *)
(* text headers, and the header of a trailing trace whose samples were      *)
(* never written (f.tail).  Bytes of a hole left by a write beyond the end  *)
(* read as zero.                                                            *)

ZeroHdr == (offset :> 0) @@ (INLINE_3D :> 0) @@ (CROSSLINE_3D :> 0)

ZeroTrace(f) ==
    [hdr |-> ZeroHdr, data |-> [j \in 1..segy_samples(f.bin) |-> 0]]

NoTail == [has |-> FALSE, hdr |-> ZeroHdr]

\* whether fopen's mode lets the stream be written
Writable(mode) == mode \in {"r+b", "w+b", "a+b", "wb", "ab"}

\* the whole traces 0..k-1 of a file that grows to hold them: the trailing
\* header, if any, begins the first new trace, holes are zero
Grown(f, k) ==
    f.traces \o
    [j \in 1..(k - WholeTraces(f)) |->
        IF j = 1 /\ f.tail.has
        THEN [ZeroTrace(f) EXCEPT !.hdr = f.tail.hdr] ELSE ZeroTrace(f)]

Larger(a, b) == IF a >= b THEN a ELSE b

\* whether the n bytes stored at p are exactly a trace's header or exactly
\* its samples, the units the file is held in
Aligned(f, p, n, payload) ==
    \/ /\ payload.kind = "header"
       /\ (p - Trace0Of(f)) % TraceLen(f) = 0
       /\ n = SEGY_TRACE_HEADER_SIZE
    \/ /\ payload.kind = "samples"
       /\ (p - Trace0Of(f)) % TraceLen(f) = SEGY_TRACE_HEADER_SIZE
       /\ n = BSizeOf(f)

\* a trace some of whose bytes were overwritten by a store the model does
\* not follow byte by byte
Clobbered == [hdr |-> ZeroHdr, data |-> <<>>, clobbered |-> TRUE]

\* the file after n bytes of payload are stored at position p
FilePut(f, p, n, payload) ==
    IF n = 0 THEN f
    ELSE IF payload.kind = "bin" THEN [f EXCEPT !.bin = payload.bin]
    ELSE IF payload.kind = "text"
    THEN [f EXCEPT !.text[IF p = 0 THEN 0
                          ELSE 1 + (p - SEGY_TEXT_HEADER_SIZE
                                      - SEGY_BINARY_HEADER_SIZE)
                                   \div SEGY_TEXT_HEADER_SIZE] = payload.text]
    ELSE With((p - Trace0Of(f)) \div TraceLen(f), LAMBDA k :
         IF ~Aligned(f, p, n, payload)
         THEN [f EXCEPT !.traces = [Grown(f, k + 1) EXCEPT ![k + 1] = Clobbered],
                        !.size = Larger(f.size, p + n)]
         ELSE IF k < WholeTraces(f)
         THEN IF payload.kind = "header"
              THEN [f EXCEPT !.traces[k + 1].hdr = payload.hdr]
              ELSE [f EXCEPT !.traces[k + 1].data = payload.data]
         ELSE IF payload.kind = "header" /\ BSizeOf(f) > 0
         THEN [f EXCEPT !.traces = Grown(f, k),
                        !.size = Larger(f.size, p + n),
                        !.tail = [has |-> TRUE, hdr |-> payload.hdr]]
         ELSE IF payload.kind = "header"
         THEN [f EXCEPT !.traces = Append(Grown(f, k),
                                          [hdr |-> payload.hdr, data |-> <<>>]),
                        !.size = Larger(f.size, p + n),
                        !.tail = NoTail]
         ELSE [f EXCEPT !.traces = [Grown(f, k + 1) EXCEPT
                                       ![k + 1].data = payload.data],
                        !.size = Larger(f.size, p + n),
                        !.tail = NoTail])

\* fwrite( buf, 1, n, fp ): the count written, the file, the stream moved on.
\* A stream opened for reading takes no bytes.  What a stream holds back in
\* its buffer reaches the file with the stream's next fseek, rewind, fflush
\* or fclose, and every read and write of the library begins with one.
fwrite(h, f, n, payload) ==
    IF ~Writable(h.mode) THEN [count |-> 0, file |-> f, h |-> h]
    ELSE [count |-> n, file |-> FilePut(f, Val(h.pos), n, payload),
          h |-> [h EXCEPT !.pos = Add64(h.pos, S64(n))]]

\* memcpy( fp->cur, buf, n ) into the mapping.  A store into a mapping made
\* with PROT_READ ends the process; bytes stored past the mapped length
\* never reach the file, and end the process where no page is there.
\* the protection segy_mmap asks for: a mode with "+" or "w" maps writable
rw(mode) == mode \in {"r+b", "w+b", "a+b", "wb"}

memcpy_to(h, f, n, payload) ==
    IF n = 0 THEN [fault |-> FALSE, file |-> f]
    ELSE IF ~rw(h.mode) THEN [fault |-> TRUE, file |-> f]
    ELSE IF h.cur + n <= h.fsize
    THEN [fault |-> FALSE, file |-> FilePut(f, h.cur, n, payload)]
    ELSE [fault |-> platform.past_mapping = "fault", file |-> f]

segy_write_binheader(h, f, buf) ==
    IF ~h.open THEN [err |-> SEGY_INVALID_ARGS, h |-> h, file |-> f]
    ELSE With(fseek_set(h, S64(SEGY_TEXT_HEADER_SIZE)), LAMBDA s :
       IF s.err # 0 THEN [err |-> SEGY_FSEEK_ERROR, h |-> s.h, file |-> f]
       ELSE With(fwrite(s.h, f, SEGY_BINARY_HEADER_SIZE, buf), LAMBDA w :
               [err |-> IF w.count # SEGY_BINARY_HEADER_SIZE
                        THEN SEGY_FWRITE_ERROR ELSE SEGY_OK,
                h |-> w.h, file |-> w.file]))

segy_write_traceheader(h, f, traceno, buf, trace0, trace_bsize) ==
    With(segy_seek(h, traceno, trace0, trace_bsize), LAMBDA s :
       IF s.err # SEGY_OK THEN [err |-> s.err, h |-> s.h, file |-> f]
       ELSE IF s.h.addr
       THEN With(memcpy_to(s.h, f, SEGY_TRACE_HEADER_SIZE, buf), LAMBDA m :
               [err |-> IF m.fault THEN Fault ELSE SEGY_OK, h |-> s.h,
                file |-> m.file])
       ELSE With(fwrite(s.h, f, SEGY_TRACE_HEADER_SIZE, buf), LAMBDA w :
               [err |-> IF w.count # SEGY_TRACE_HEADER_SIZE
                        THEN SEGY_FWRITE_ERROR ELSE SEGY_OK,
                h |-> w.h, file |-> w.file]))

\* segy_writetrace without the skip of the trace header
writetrace_no_skip(h, f, traceno, buf, trace0, trace_bsize) ==
    With(segy_seek(h, traceno, trace0, trace_bsize), LAMBDA s :
       IF s.err # SEGY_OK THEN [err |-> s.err, h |-> s.h, file |-> f]
       ELSE IF s.h.addr
       THEN With(memcpy_to(s.h, f, trace_bsize, buf), LAMBDA m :
               [err |-> IF m.fault THEN Fault ELSE SEGY_OK, h |-> s.h,
                file |-> m.file])
       ELSE With(fwrite(s.h, f, trace_bsize, buf), LAMBDA w :
               [err |-> IF w.count # trace_bsize THEN SEGY_FWRITE_ERROR
                        ELSE SEGY_OK,
                h |-> w.h, file |-> w.file]))

segy_writetrace(h, f, traceno, buf, trace0, trace_bsize) ==
    With(segy_seek(h, traceno, trace0, trace_bsize), LAMBDA s :
       IF s.err # SEGY_OK THEN [err |-> s.err, h |-> s.h, file |-> f]
       ELSE With(skip_traceheader(s.h), LAMBDA k :
       IF k.err # SEGY_OK THEN [err |-> k.err, h |-> k.h, file |-> f]
       ELSE IF k.h.addr
       THEN With(memcpy_to(k.h, f, trace_bsize, buf), LAMBDA m :
               [err |-> IF m.fault THEN Fault ELSE SEGY_OK, h |-> k.h,
                file |-> m.file])
       ELSE With(fwrite(k.h, f, trace_bsize, buf), LAMBDA w :
               [err |-> IF w.count # trace_bsize THEN SEGY_FWRITE_ERROR
                        ELSE SEGY_OK,
                h |-> w.h, file |-> w.file])))

\* the loop of segy_write_line; bufs holds the sample buffers still to write
RECURSIVE write_line_walk(_, _, _, _, _, _, _)
write_line_walk(h, f, line_trace0, stride, bufs, trace0, trace_bsize) ==
    IF bufs = <<>> THEN [err |-> SEGY_OK, h |-> h, file |-> f]
    ELSE With(segy_writetrace(h, f, line_trace0, Head(bufs), trace0, trace_bsize),
              LAMBDA w :
            IF w.err # SEGY_OK THEN w
            ELSE write_line_walk(w.h, w.file, line_trace0 + stride, stride,
                                 Tail(bufs), trace0, trace_bsize))

\* buf is the line's sample buffers, one for each of its line_length traces
segy_write_line(h, f, line_trace0, stride, offsets, buf, trace0, trace_bsize) ==
    write_line_walk(h, f, line_trace0 * offsets, stride * offsets, buf, trace0,
                    trace_bsize)

\* ascii2ebcdic of a text header taken as a whole
Ebcdic(text) == [text EXCEPT !.enc = "ebcdic"]

\* segy_write_textheader of a text taken as a whole
WriteTextHeader(h, f, pos, buf) ==
    With(IF pos = 0 THEN 0
         ELSE SEGY_TEXT_HEADER_SIZE + SEGY_BINARY_HEADER_SIZE
                  + (pos - 1) * SEGY_TEXT_HEADER_SIZE, LAMBDA off :
    With(fseek_set(h, S64(off)), LAMBDA s :
       IF s.err # 0 THEN [err |-> SEGY_FSEEK_ERROR, h |-> s.h, file |-> f]
       ELSE With(fwrite(s.h, f, SEGY_TEXT_HEADER_SIZE,
                        [kind |-> "text", text |-> Ebcdic(buf)]), LAMBDA w :
               [err |-> IF w.count # SEGY_TEXT_HEADER_SIZE
                        THEN SEGY_FWRITE_ERROR ELSE SEGY_OK,
                h |-> w.h, file |-> w.file])))

----------------------------------------------------------------------------
(* Geometry layer *)

\* (int)x of a size_t x
IntOf(x) == Low32(x)

RECURSIVE sorting_walk(_, _, _, _, _, _, _, _)

\* a walk that goes on while the offset is that of trace 0
sorting_walk_while_same(h, il, xl, off0, traceno, traces, trace0, trace_bsize) ==
    With(segy_traceheader(h, traceno, trace0, trace_bsize), LAMBDA r :
       IF r.err # SEGY_OK
       THEN [err |-> r.err, h |-> r.h, il1 |-> 0, xl1 |-> 0, stop |-> traceno]
       ELSE IF off0 = HeaderField(r.buf, offset) /\ traceno + 1 < traces
       THEN sorting_walk(r.h, il, xl, off0, traceno + 1, traces, trace0,
                         trace_bsize)
       ELSE [err |-> SEGY_OK, h |-> r.h,
             il1 |-> HeaderField(r.buf, il),
             xl1 |-> HeaderField(r.buf, xl), stop |-> traceno])

\* the do-while of segy_sorting, about to read trace `traceno`; stop is the
\* last trace it asked for
sorting_walk(h, il, xl, off0, traceno, traces, trace0, trace_bsize) ==
    With(segy_traceheader(h, traceno, trace0, trace_bsize), LAMBDA r :
       IF r.err # SEGY_OK
       THEN [err |-> r.err, h |-> r.h, il1 |-> 0, xl1 |-> 0, stop |-> traceno]
       ELSE IF off0 # HeaderField(r.buf, offset) /\ traceno + 1 < traces
       THEN sorting_walk(r.h, il, xl, off0, traceno + 1, traces, trace0,
                         trace_bsize)
       ELSE [err |-> SEGY_OK, h |-> r.h,
             il1 |-> HeaderField(r.buf, il),
             xl1 |-> HeaderField(r.buf, xl), stop |-> traceno])

\* the tie-break at the end of segy_sorting
sorting_of(il0, xl0, il1, xl1, il_last, xl_last) ==
    IF il0 = il_last THEN [err |-> SEGY_OK, sorting |-> CROSSLINE_SORTING]
    ELSE IF xl0 = xl_last THEN [err |-> SEGY_OK, sorting |-> INLINE_SORTING]
    ELSE IF il0 = il1 THEN [err |-> SEGY_OK, sorting |-> INLINE_SORTING]
    ELSE IF xl0 = xl1 THEN [err |-> SEGY_OK, sorting |-> CROSSLINE_SORTING]
    ELSE [err |-> SEGY_INVALID_SORTING, sorting |-> UNKNOWN_SORTING]

\* the walk of a call that returned before it came to it
NoWalk == [stop |-> 0, il1 |-> 0, xl1 |-> 0]

\* sorting is what the call leaves in *sorting; `before` is what it held;
\* walk is where the do-while stopped and the il1, xl1 it left
segy_sorting(h, il, xl, before, trace0, trace_bsize) ==
    With(segy_traceheader(h, 0, trace0, trace_bsize), LAMBDA first :
       IF first.err # SEGY_OK
       THEN [err |-> first.err, sorting |-> before, h |-> first.h,
             walk |-> NoWalk]
       ELSE IF il < 0 \/ il >= SEGY_TRACE_HEADER_SIZE
               \/ xl < 0 \/ xl >= SEGY_TRACE_HEADER_SIZE
               \/ field_size(il) = 0 \/ field_size(xl) = 0
       THEN [err |-> SEGY_INVALID_FIELD, sorting |-> before, h |-> first.h,
             walk |-> NoWalk]
       ELSE With(segy_traces(first.h, trace0, trace_bsize), LAMBDA t :
       IF t.err # SEGY_OK
       THEN [err |-> t.err, sorting |-> before, h |-> first.h, walk |-> NoWalk]
       ELSE With(sorting_walk(first.h, il, xl, HeaderField(first.buf, offset),
                              1, IntOf(t.traces), trace0, trace_bsize), LAMBDA w :
       IF w.err # SEGY_OK
       THEN [err |-> w.err, sorting |-> before, h |-> w.h,
             walk |-> [stop |-> w.stop, il1 |-> w.il1, xl1 |-> w.xl1]]
       ELSE With(segy_traceheader(w.h, IntOf(t.traces) - 1, trace0, trace_bsize),
                 LAMBDA last :
       IF last.err # SEGY_OK
       THEN [err |-> last.err, sorting |-> before, h |-> last.h,
             walk |-> [stop |-> w.stop, il1 |-> w.il1, xl1 |-> w.xl1]]
       ELSE With(sorting_of(HeaderField(first.buf, il),
                            HeaderField(first.buf, xl), w.il1, w.xl1,
                            HeaderField(last.buf, il),
                            HeaderField(last.buf, xl)), LAMBDA s :
               [err |-> s.err,
                sorting |-> IF s.err = SEGY_OK THEN s.sorting ELSE before,
                h |-> last.h,
                walk |-> [stop |-> w.stop, il1 |-> w.il1, xl1 |-> w.xl1]])))))

\* segy_offsets' walk without the stop at the last trace
RECURSIVE offsets_walk_past_end(_, _, _, _, _, _, _, _, _)
offsets_walk_past_end(h, il, xl, il0, xl0, offsets, traces, trace0, trace_bsize) ==
    With(segy_traceheader(h, offsets + 1, trace0, trace_bsize), LAMBDA r :
       IF r.err # SEGY_OK
       THEN [err |-> r.err, out |-> 0, written |-> FALSE, h |-> r.h]
       ELSE IF il0 = HeaderField(r.buf, il) /\ xl0 = HeaderField(r.buf, xl)
       THEN offsets_walk_past_end(r.h, il, xl, il0, xl0, offsets + 1, traces,
                                  trace0, trace_bsize)
       ELSE [err |-> SEGY_OK, out |-> offsets + 1, written |-> TRUE, h |-> r.h])

\* the do-while of segy_offsets, entered with `offsets` traces counted
RECURSIVE offsets_walk(_, _, _, _, _, _, _, _, _)
offsets_walk(h, il, xl, il0, xl0, offsets, traces, trace0, trace_bsize) ==
    IF offsets + 1 = traces
    THEN [err |-> SEGY_OK, out |-> offsets + 1, written |-> TRUE, h |-> h]
    ELSE With(segy_traceheader(h, offsets + 1, trace0, trace_bsize), LAMBDA r :
            IF r.err # SEGY_OK
            THEN [err |-> r.err, out |-> 0, written |-> FALSE, h |-> r.h]
            ELSE IF il0 = HeaderField(r.buf, il)
                    /\ xl0 = HeaderField(r.buf, xl)
            THEN offsets_walk(r.h, il, xl, il0, xl0, offsets + 1, traces, trace0,
                              trace_bsize)
            ELSE [err |-> SEGY_OK, out |-> offsets + 1, written |-> TRUE,
                  h |-> r.h])

\* an int read out of a header no read has filled: it is never compared, as
\* the read of the next header fails wherever the read of the first one did
Indeterminate == "indeterminate"

segy_offsets(h, il, xl, traces, trace0, trace_bsize) ==
    IF traces = 1 THEN [err |-> SEGY_OK, out |-> 1, written |-> TRUE, h |-> h]
    ELSE IF field_size(il) = 0 \/ field_size(xl) = 0
    THEN [err |-> SEGY_INVALID_FIELD, out |-> 0, written |-> FALSE, h |-> h]
    ELSE With(segy_traceheader(h, 0, trace0, trace_bsize), LAMBDA first :
            offsets_walk(first.h, il, xl,
                         IF first.err = SEGY_OK THEN HeaderField(first.buf, il)
                         ELSE Indeterminate,
                         IF first.err = SEGY_OK THEN HeaderField(first.buf, xl)
                         ELSE Indeterminate,
                         0, traces, trace0, trace_bsize))

\* the loop of segy_line_indices, with `buf` the values written so far
RECURSIVE line_indices_walk(_, _, _, _, _, _, _, _)
line_indices_walk(h, field, traceno, stride, num_indices, buf, trace0, trace_bsize) ==
    IF num_indices = 0 THEN [err |-> SEGY_OK, buf |-> buf, h |-> h]
    ELSE With(segy_traceheader(h, traceno, trace0, trace_bsize), LAMBDA r :
            IF r.err # SEGY_OK
            THEN [err |-> SEGY_FREAD_ERROR, buf |-> buf, h |-> r.h]
            ELSE line_indices_walk(r.h, field, traceno + stride, stride,
                                   num_indices - 1,
                                   Append(buf, HeaderField(r.buf, field)),
                                   trace0, trace_bsize))

segy_line_indices(h, field, traceno, stride, num_indices, trace0, trace_bsize) ==
    IF field_size(field) = 0
    THEN [err |-> SEGY_INVALID_FIELD, buf |-> <<>>, h |-> h]
    ELSE line_indices_walk(h, field, traceno, stride, num_indices, <<>>, trace0,
                           trace_bsize)

\* count_lines' walk comparing the line number only, not the offset
RECURSIVE count_walk_any_offset(_, _, _, _, _, _, _, _, _)
count_walk_any_offset(h, field, offsets, first_lineno, first_offset, curr, lines, trace0, trace_bsize) ==
    With(segy_traceheader(h, curr, trace0, trace_bsize), LAMBDA r :
       IF r.err # SEGY_OK
       THEN [err |-> r.err, out |-> 0, written |-> FALSE, h |-> r.h]
       ELSE IF HeaderField(r.buf, field) = first_lineno
       THEN [err |-> SEGY_OK, out |-> lines, written |-> TRUE, h |-> r.h]
       ELSE count_walk_any_offset(r.h, field, offsets, first_lineno,
                                  first_offset, curr + offsets, lines + 1,
                                  trace0, trace_bsize))

\* the loop of count_lines, about to read trace `curr`
RECURSIVE count_walk(_, _, _, _, _, _, _, _, _)
count_walk(h, field, offsets, first_lineno, first_offset, curr, lines, trace0, trace_bsize) ==
    With(segy_traceheader(h, curr, trace0, trace_bsize), LAMBDA r :
       IF r.err # SEGY_OK
       THEN [err |-> r.err, out |-> 0, written |-> FALSE, h |-> r.h]
       ELSE IF first_offset = HeaderField(r.buf, offset)
               /\ HeaderField(r.buf, field) = first_lineno
       THEN [err |-> SEGY_OK, out |-> lines, written |-> TRUE, h |-> r.h]
       ELSE count_walk(r.h, field, offsets, first_lineno, first_offset,
                       curr + offsets, lines + 1, trace0, trace_bsize))

count_lines(h, field, offsets, trace0, trace_bsize) ==
    With(segy_traceheader(h, 0, trace0, trace_bsize), LAMBDA first :
       IF first.err # SEGY_OK
       THEN [err |-> first.err, out |-> 0, written |-> FALSE, h |-> first.h]
       ELSE IF field_size(field) = 0
       THEN [err |-> SEGY_INVALID_FIELD, out |-> 0, written |-> FALSE,
             h |-> first.h]
       ELSE count_walk(first.h, field, offsets, HeaderField(first.buf, field),
                       HeaderField(first.buf, offset), offsets, 1, trace0,
                       trace_bsize))

segy_count_lines(h, field, offsets, trace0, trace_bsize) ==
    With(count_lines(h, field, offsets, trace0, trace_bsize), LAMBDA c :
       IF c.err # SEGY_OK
       THEN [err |-> c.err, l1out |-> 0, l2out |-> 0, written |-> FALSE, h |-> c.h]
       ELSE With(segy_traces(c.h, trace0, trace_bsize), LAMBDA t :
       IF t.err # SEGY_OK
       THEN [err |-> t.err, l1out |-> 0, l2out |-> 0, written |-> FALSE, h |-> c.h]
       ELSE [err |-> SEGY_OK,
             l1out |-> IntOf(DivMod64(t.traces, c.out * offsets).quot),
             l2out |-> c.out, written |-> TRUE, h |-> c.h]))

segy_inline_length(crossline_count) == crossline_count

segy_crossline_length(inline_count) == inline_count

\* segy_inline_indices striding by lines only, as if every file had one offset
inline_indices_one_offset(h, il, sorting, inline_count, crossline_count, offsets, trace0, trace_bsize) ==
    IF sorting = INLINE_SORTING
    THEN segy_line_indices(h, il, 0, crossline_count, inline_count, trace0,
                           trace_bsize)
    ELSE IF sorting = CROSSLINE_SORTING
    THEN segy_line_indices(h, il, 0, 1, inline_count, trace0, trace_bsize)
    ELSE [err |-> SEGY_INVALID_SORTING, buf |-> <<>>, h |-> h]

segy_inline_indices(h, il, sorting, inline_count, crossline_count, offsets, trace0, trace_bsize) ==
    IF sorting = INLINE_SORTING
    THEN With(segy_traces(h, trace0, trace_bsize), LAMBDA t :
            IF t.err # SEGY_OK THEN [err |-> t.err, buf |-> <<>>, h |-> h]
            ELSE segy_line_indices(h, il, 0, crossline_count * offsets,
                                   inline_count, trace0, trace_bsize))
    ELSE IF sorting = CROSSLINE_SORTING
    THEN segy_line_indices(h, il, 0, offsets, inline_count, trace0, trace_bsize)
    ELSE [err |-> SEGY_INVALID_SORTING, buf |-> <<>>, h |-> h]

segy_crossline_indices(h, xl, sorting, inline_count, crossline_count, offsets, trace0, trace_bsize) ==
    IF sorting = INLINE_SORTING
    THEN segy_line_indices(h, xl, 0, offsets, crossline_count, trace0,
                           trace_bsize)
    ELSE IF sorting = CROSSLINE_SORTING
    THEN With(segy_traces(h, trace0, trace_bsize), LAMBDA t :
            IF t.err # SEGY_OK THEN [err |-> t.err, buf |-> <<>>, h |-> h]
            ELSE segy_line_indices(h, xl, 0, inline_count * offsets,
                                   crossline_count, trace0, trace_bsize))
    ELSE [err |-> SEGY_INVALID_SORTING, buf |-> <<>>, h |-> h]

\* position (from 0) of x in the first sz elements of xs, -1 when absent
index_of(x, xs, sz) ==
    IF \E i \in 1..sz : xs[i] = x
    THEN (CHOOSE i \in 1..sz : xs[i] = x /\ \A j \in 1..(i - 1) : xs[j] # x) - 1
    ELSE -1

\* segy_line_trace0 scaling by the line length whatever the stride
line_trace0_always_scaled(lineno, line_length, stride, offsets, linenos, linenos_sz, before) ==
    With(index_of(lineno, linenos, linenos_sz), LAMBDA index :
       IF index < 0 THEN [err |-> SEGY_MISSING_LINE_INDEX, traceno |-> before]
       ELSE [err |-> SEGY_OK, traceno |-> index * line_length * offsets])

\* traceno is what the call leaves in *traceno; `before` is what it held
segy_line_trace0(lineno, line_length, stride, offsets, linenos, linenos_sz, before) ==
    With(index_of(lineno, linenos, linenos_sz), LAMBDA index :
       IF index < 0 THEN [err |-> SEGY_MISSING_LINE_INDEX, traceno |-> before]
       ELSE [err |-> SEGY_OK,
             traceno |-> (IF stride = 1 THEN index * line_length ELSE index)
                             * offsets])

segy_inline_stride(sorting, inline_count) ==
    IF sorting = CROSSLINE_SORTING THEN [err |-> SEGY_OK, stride |-> inline_count]
    ELSE IF sorting = INLINE_SORTING THEN [err |-> SEGY_OK, stride |-> 1]
    ELSE [err |-> SEGY_INVALID_SORTING, stride |-> 0]

segy_crossline_stride(sorting, crossline_count) ==
    IF sorting = CROSSLINE_SORTING THEN [err |-> SEGY_OK, stride |-> 1]
    ELSE IF sorting = INLINE_SORTING
    THEN [err |-> SEGY_OK, stride |-> crossline_count]
    ELSE [err |-> SEGY_INVALID_SORTING, stride |-> 0]

\* the loop of segy_read_line; stride is already multiplied by offsets, buf is
\* the samples delivered so far
RECURSIVE read_line_walk(_, _, _, _, _, _, _)
read_line_walk(h, line_trace0, line_length, stride, buf, trace0, trace_bsize) ==
    IF line_length = 0 THEN [err |-> SEGY_OK, buf |-> buf, h |-> h]
    ELSE With(segy_readtrace(h, line_trace0, trace0, trace_bsize), LAMBDA r :
            IF r.err # SEGY_OK THEN [err |-> r.err, buf |-> buf, h |-> r.h]
            ELSE read_line_walk(r.h, line_trace0 + stride, line_length - 1,
                                stride, buf \o SamplesOf(r.buf), trace0,
                                trace_bsize))

\* segy_read_line scaling its first trace by offsets, as segy_write_line does
read_line_scaled_start(h, line_trace0, line_length, stride, offsets, trace0, trace_bsize) ==
    read_line_walk(h, line_trace0 * offsets, line_length, stride * offsets, <<>>,
                   trace0, trace_bsize)

segy_read_line(h, line_trace0, line_length, stride, offsets, trace0, trace_bsize) ==
    read_line_walk(h, line_trace0, line_length, stride * offsets, <<>>, trace0,
                   trace_bsize)

----------------------------------------------------------------------------
(* The builds and the files of the I/O specification *)

\* LP64 with mmap (long is 64 bit); LLP64 without (long is 32 bit)
Platforms ==
    { [long |-> 64, have_mmap |-> TRUE, past_mapping |-> u] :
          u \in {"zero_fill", "fault"} }
    \cup { [long |-> 32, have_mmap |-> FALSE, past_mapping |-> "fault"] }

Lp64 == [long |-> 64, have_mmap |-> TRUE, past_mapping |-> "fault"]

\* trace k of a file whose headers number the traces along one line
PlainTrace(k, samples) ==
    [hdr  |-> (offset :> 1) @@ (INLINE_3D :> 1) @@ (CROSSLINE_3D :> k),
     data |-> [j \in 1..samples |-> 10 * k + j]]

\* a file of n traces, tail bytes longer (or, tail < 0, shorter) than that
IOFile(ext, samples, n, tail) ==
    LET bin   == [ExtendedHeaders |-> ext, Samples |-> samples]
        len   == SEGY_TRACE_HEADER_SIZE + segy_trace_bsize(samples)
        whole == IF tail >= 0 THEN n ELSE IF n > 0 THEN n - 1 ELSE 0
    IN [bin    |-> bin,
        size   |-> segy_trace0(bin) + n * len + tail,
        traces |-> [k \in 1..whole |-> PlainTrace(k, samples)]]

IOFiles ==
    { IOFile(e, s, n, t) : e \in 0..MaxExt, s \in 0..MaxSamples,
                           n \in 0..MaxIOTraces, t \in 0..MaxPartial }

\* files of every size around a whole number of traces
SizedFiles ==
    { IOFile(e, s, n, t) : e \in 0..MaxExt, s \in 0..MaxSamples,
                           n \in 0..MaxIOTraces, t \in (-MaxTail)..MaxTail }

\* the first trace number whose byte position reaches `limit`
FirstTraceAt(limit, f) ==
    LET d == DivMod64(Sub64(limit, S64(Trace0Of(f))), TraceLen(f))
    IN Val(d.quot) + (IF d.rem = 0 THEN 0 ELSE 1)

\* the trace numbers the client asks for: in the file, the one past it, and the
\* first ones at 2^31 and at 2^32 bytes
TraceNos(f) ==
    0..WholeTraces(f)
        \cup {FirstTraceAt(<<0, 0, HalfL16, 0>>, f), FirstTraceAt(<<0, 1, 0, 0>>, f)}

\* the ints that unsigned trace numbers of 2^31 and more convert to: those of
\* 2^32 - 1, 2^32 - 16 and 2^31
WrappedTraceNos == {-1, -16, -2147483647 - 1}

\* what the client's size_t holds before segy_traces writes it
Unwritten == <<L16 - 1, L16 - 1, L16 - 1, L16 - 1>>

NoCall ==
    [op |-> "none", traceno |-> 0,
     b |-> [err |-> SEGY_OK, buf |-> Untouched, asked |-> Zero64],
     m |-> [err |-> SEGY_OK, buf |-> Untouched, asked |-> Zero64],
     traces |-> Unwritten]

NoInsp == [sorting |-> UNKNOWN_SORTING]

----------------------------------------------------------------------------
(* The I/O specification: a client with two handles on one file asks both   *)
(* for the same traces; fm may be upgraded to a mapping, fp stays buffered. *)

InitIO ==
    /\ os = Pristine
    /\ file \in IOFiles
    /\ platform \in Platforms
    /\ \E o \in {segy_binheader(segy_open("rb"))} :
          /\ o.err = SEGY_OK
          /\ fp = o.h
          /\ fm = o.h
    /\ pc = "client"
    /\ insp = NoInsp
    /\ call = NoCall

\* the process goes on unless a read faulted
AfterCall(errb, errm) == IF Fault \in {errb, errm} THEN "killed" ELSE "client"

IOMmap ==
    /\ pc = "client"
    /\ ~fm.addr
    /\ \E r \in {segy_mmap(fm)} :
          /\ fm' = r.h
          /\ call' = [NoCall EXCEPT !.op = "mmap", !.m.err = r.err]
    /\ UNCHANGED <<file, platform, fp, pc, insp, os>>

IOSeek ==
    /\ pc = "client"
    /\ \E i \in TraceNos(file) \cup WrappedTraceNos :
         \E rb \in {segy_seek(fp, i, Trace0Of(file), BSizeOf(file))},
            rm \in {segy_seek(fm, i, Trace0Of(file), BSizeOf(file))} :
            /\ fp' = rb.h
            /\ fm' = rm.h
            /\ call' = [NoCall EXCEPT !.op = "seek", !.traceno = i,
                                      !.b.err = rb.err, !.m.err = rm.err,
                                      !.b.asked = rb.asked,
                                      !.m.asked = rm.asked]
    /\ UNCHANGED <<file, platform, pc, insp, os>>

IOTraceHeader ==
    /\ pc = "client"
    /\ \E i \in TraceNos(file) :
         \E rb \in {segy_traceheader(fp, i, Trace0Of(file), BSizeOf(file))},
            rm \in {segy_traceheader(fm, i, Trace0Of(file), BSizeOf(file))} :
            /\ fp' = rb.h
            /\ fm' = rm.h
            /\ pc' = AfterCall(rb.err, rm.err)
            /\ call' = [op |-> "traceheader", traceno |-> i,
                        b |-> [err |-> rb.err, buf |-> rb.buf],
                        m |-> [err |-> rm.err, buf |-> rm.buf],
                        traces |-> Unwritten]
    /\ UNCHANGED <<file, platform, insp, os>>

IOReadTrace ==
    /\ pc = "client"
    /\ \E i \in TraceNos(file) :
         \E rb \in {segy_readtrace(fp, i, Trace0Of(file), BSizeOf(file))},
            rm \in {segy_readtrace(fm, i, Trace0Of(file), BSizeOf(file))} :
            /\ fp' = rb.h
            /\ fm' = rm.h
            /\ pc' = AfterCall(rb.err, rm.err)
            /\ call' = [op |-> "readtrace", traceno |-> i,
                        b |-> [err |-> rb.err, buf |-> rb.buf],
                        m |-> [err |-> rm.err, buf |-> rm.buf],
                        traces |-> Unwritten]
    /\ UNCHANGED <<file, platform, insp, os>>

NextIO == IOMmap \/ IOSeek \/ IOTraceHeader \/ IOReadTrace

SpecIO == InitIO /\ [][NextIO]_vars

----------------------------------------------------------------------------
(* segy_traces over files of every size: the caller passes the layout the   *)
(* binary header declares and a size_t it has not written.                  *)

InitTraces ==
    /\ os = Pristine
    /\ file \in SizedFiles
    /\ platform = Lp64
    /\ fp = segy_open("rb")
    /\ fm = NoHandle
    /\ pc = "client"
    /\ insp = NoInsp
    /\ call = NoCall

Traces ==
    /\ call.op = "none"
    /\ \E r \in {segy_traces(fp, Trace0Of(file), BSizeOf(file))} :
          call' = [NoCall EXCEPT !.op = "traces", !.b.err = r.err,
                                 !.traces = IF r.written THEN r.traces
                                            ELSE call.traces]
    /\ UNCHANGED <<file, platform, fp, fm, pc, insp, os>>

NextTraces == Traces

SpecTraces == InitTraces /\ [][NextTraces]_vars

----------------------------------------------------------------------------
(* Files with trace headers *)

\* trace t (from 0) of a file of the geometry specifications
GeomTrace(t, il, xl, off, samples) ==
    [hdr  |-> (offset :> off) @@ (INLINE_3D :> il) @@ (CROSSLINE_3D :> xl),
     data |-> [j \in 1..samples |-> 10 * t + j]]

\* a file of whole traces, no extended headers, with the given headers
GeomFile(hdrs, geom) ==
    LET bin == [ExtendedHeaders |-> 0, Samples |-> MaxSamples]
    IN [bin    |-> bin,
        size   |-> segy_trace0(bin)
                     + Len(hdrs) * (SEGY_TRACE_HEADER_SIZE
                                    + segy_trace_bsize(MaxSamples)),
        traces |-> [t \in 1..Len(hdrs) |->
                       GeomTrace(t - 1, hdrs[t].il, hdrs[t].xl, hdrs[t].off,
                                 MaxSamples)],
        geom   |-> geom]

\* the number of line k (from 0) of n lines: counting up, or rotated by one
Numberings == {"up", "rotated"}

LineNo(n, numbering, k) == IF numbering = "up" THEN k + 1 ELSE ((k + 1) % n) + 1

\* a complete cube of I inlines, X crosslines, O offsets in the given sorting:
\* offsets vary fastest, then the fast line direction, then the slow one
Cube(I, X, O, sorting, ilnum, xlnum) ==
    GeomFile([t \in 1..(I * X * O) |->
                 LET q == (t - 1) \div O
                     i == IF sorting = INLINE_SORTING THEN q \div X ELSE q % I
                     x == IF sorting = INLINE_SORTING THEN q % X ELSE q \div I
                 IN [il  |-> LineNo(I, ilnum, i),
                     xl  |-> LineNo(X, xlnum, x),
                     off |-> ((t - 1) % O) + 1]],
             [inlines |-> I, crosslines |-> X, offsets |-> O,
              sorting |-> sorting])

Cubes ==
    { Cube(I, X, O, s, ni, nx) :
          I \in 1..MaxDim, X \in 1..MaxDim, O \in 1..MaxDim,
          s \in {INLINE_SORTING, CROSSLINE_SORTING},
          ni \in Numberings, nx \in Numberings }

\* the values one header field takes over T traces, up to renaming (the
\* library only compares header values for equality): trace 0 holds 1, and a
\* trace holds a value seen before or the next unseen one, up to MaxHdr
FieldValues(T) ==
    { v \in [1..T -> 1..MaxHdr] :
        \A t \in 1..T :
            \/ v[t] = 1
            \/ \E u \in 1..(t - 1) : v[u] = v[t] \/ v[u] = v[t] - 1 }

NoGeom == [inlines |-> 0, crosslines |-> 0, offsets |-> 0,
           sorting |-> UNKNOWN_SORTING]

\* files of 1..MaxArbTraces traces whose headers hold any values
ArbFiles ==
    UNION { { GeomFile([t \in 1..T |-> [il |-> a[t], xl |-> b[t], off |-> c[t]]],
                       NoGeom) :
                  a \in FieldValues(T), b \in FieldValues(T),
                  c \in FieldValues(T) } :
                T \in 1..MaxArbTraces }

\* a local the program has not assigned
Unset == "unset"

----------------------------------------------------------------------------
(* The inspector: main of segyinspect.c on a cube, default fields 189, 193 *)

il_field == INLINE_3D
xl_field == CROSSLINE_3D

NoLocals ==
    [err |-> SEGY_OK, trace0 |-> Unset, trace_bsize |-> Unset, traces |-> Unset,
     sorting |-> Unset, offsets |-> Unset, inline_count |-> Unset,
     crossline_count |-> Unset, inline_indices |-> Unset,
     crossline_indices |-> Unset]

InitInspect ==
    /\ os = Pristine
    /\ file \in Cubes
    /\ platform = Lp64
    /\ fp = segy_open("rb")
    /\ fm = NoHandle
    /\ pc = "binheader"
    /\ insp = NoLocals
    /\ call = NoCall

\* exit( err )
Exit(err) ==
    /\ pc' = "exit"
    /\ insp' = [insp EXCEPT !.err = err]

InspBinheader ==
    /\ pc = "binheader"
    /\ \E r \in {segy_binheader(fp)} :
          /\ fp' = r.h
          /\ IF r.err # SEGY_OK THEN Exit(r.err)
             ELSE /\ pc' = "traces"
                  /\ insp' = [insp EXCEPT
                        !.trace0 = segy_trace0(file.bin),
                        !.trace_bsize = segy_trace_bsize(segy_samples(file.bin))]
    /\ UNCHANGED <<file, platform, fm, call, os>>

InspTraces ==
    /\ pc = "traces"
    /\ \E r \in {segy_traces(fp, insp.trace0, insp.trace_bsize)} :
          IF r.err # SEGY_OK THEN Exit(r.err)
          ELSE /\ pc' = "sorting"
               /\ insp' = [insp EXCEPT !.traces = r.traces]
    /\ UNCHANGED <<file, platform, fp, fm, call, os>>

InspSorting ==
    /\ pc = "sorting"
    /\ \E r \in {segy_sorting(fp, il_field, xl_field, insp.sorting, insp.trace0,
                              insp.trace_bsize)} :
          /\ fp' = r.h
          /\ IF r.err # SEGY_OK THEN Exit(r.err)
             ELSE /\ pc' = "offsets"
                  /\ insp' = [insp EXCEPT !.sorting = r.sorting]
    /\ UNCHANGED <<file, platform, fm, call, os>>

InspOffsets ==
    /\ pc = "offsets"
    /\ \E r \in {segy_offsets(fp, il_field, xl_field, IntOf(insp.traces),
                              insp.trace0, insp.trace_bsize)} :
          /\ fp' = r.h
          /\ IF r.err # SEGY_OK THEN Exit(r.err)
             ELSE /\ pc' = "count_lines"
                  /\ insp' = [insp EXCEPT !.offsets = r.out]
    /\ UNCHANGED <<file, platform, fm, call, os>>

InspCountLines ==
    /\ pc = "count_lines"
    /\ \E r \in {segy_count_lines(fp,
                                  IF insp.sorting = INLINE_SORTING THEN xl_field
                                  ELSE il_field,
                                  insp.offsets, insp.trace0, insp.trace_bsize)} :
          /\ fp' = r.h
          /\ IF r.err # SEGY_OK THEN Exit(r.err)
             ELSE /\ pc' = "inline_indices"
                  /\ insp' = IF insp.sorting = INLINE_SORTING
                             THEN [insp EXCEPT !.inline_count = r.l1out,
                                               !.crossline_count = r.l2out]
                             ELSE [insp EXCEPT !.crossline_count = r.l1out,
                                               !.inline_count = r.l2out]
    /\ UNCHANGED <<file, platform, fm, call, os>>

InspInlineIndices ==
    /\ pc = "inline_indices"
    /\ \E r \in {segy_inline_indices(fp, il_field, insp.sorting,
                                     insp.inline_count, insp.crossline_count,
                                     insp.offsets, insp.trace0,
                                     insp.trace_bsize)} :
          /\ fp' = r.h
          /\ IF r.err # SEGY_OK THEN Exit(r.err)
             ELSE /\ pc' = "crossline_indices"
                  /\ insp' = [insp EXCEPT !.inline_indices = r.buf]
    /\ UNCHANGED <<file, platform, fm, call, os>>

InspCrosslineIndices ==
    /\ pc = "crossline_indices"
    /\ \E r \in {segy_crossline_indices(fp, xl_field, insp.sorting,
                                        insp.inline_count, insp.crossline_count,
                                        insp.offsets, insp.trace0,
                                        insp.trace_bsize)} :
          /\ fp' = r.h
          /\ IF r.err # SEGY_OK THEN Exit(r.err)
             ELSE /\ pc' = "done"
                  /\ insp' = [insp EXCEPT !.crossline_indices = r.buf]
    /\ UNCHANGED <<file, platform, fm, call, os>>

NextInspect ==
    \/ InspBinheader
    \/ InspTraces
    \/ InspSorting
    \/ InspOffsets
    \/ InspCountLines
    \/ InspInlineIndices
    \/ InspCrosslineIndices

SpecInspect == InitInspect /\ [][NextInspect]_vars

----------------------------------------------------------------------------
(* Geometry calls of a client on files with arbitrary headers: it opens the *)
(* file, maps it or not, and makes one call.                                *)

NoGeomCall ==
    [op |-> "none", err |-> SEGY_OK, field |-> 0, offsets |-> 0,
     sorting |-> Unset, out |-> Unset, l1out |-> Unset, l2out |-> Unset,
     walk |-> NoWalk]

\* the handle is fresh: opened, mapped or not, no geometry call made
Fresh == call.op \in {"none", "mmap"}

\* the trace count the client got from segy_traces
TracesOf(f) == IntOf(segy_traces(fp, Trace0Of(f), BSizeOf(f)).traces)

InitGeom ==
    /\ os = Pristine
    /\ file \in ArbFiles
    /\ platform = Lp64
    /\ \E o \in {segy_binheader(segy_open("rb"))} :
          /\ o.err = SEGY_OK
          /\ fp = o.h
    /\ fm = NoHandle
    /\ pc = "client"
    /\ insp = NoLocals
    /\ call = NoGeomCall

GeomMmap ==
    /\ ~fp.addr
    /\ \E r \in {segy_mmap(fp)} :
          /\ fp' = r.h
          /\ call' = [NoGeomCall EXCEPT !.op = "mmap", !.err = r.err]
    /\ UNCHANGED <<file, platform, fm, pc, insp, os>>

GeomSorting ==
    /\ Fresh
    /\ \E r \in {segy_sorting(fp, INLINE_3D, CROSSLINE_3D, Unset, Trace0Of(file),
                              BSizeOf(file))} :
          /\ fp' = r.h
          /\ call' = [NoGeomCall EXCEPT !.op = "sorting", !.err = r.err,
                                        !.sorting = r.sorting, !.walk = r.walk]
    /\ UNCHANGED <<file, platform, fm, pc, insp, os>>

GeomOffsets ==
    /\ Fresh
    /\ \E r \in {segy_offsets(fp, INLINE_3D, CROSSLINE_3D, TracesOf(file),
                              Trace0Of(file), BSizeOf(file))} :
          /\ fp' = r.h
          /\ call' = [NoGeomCall EXCEPT !.op = "offsets", !.err = r.err,
                                        !.out = IF r.written THEN r.out ELSE Unset]
    /\ UNCHANGED <<file, platform, fm, pc, insp, os>>

GeomCountLines ==
    /\ Fresh
    /\ \E field \in {INLINE_3D, CROSSLINE_3D}, offsets \in 1..MaxArbTraces :
         \E r \in {segy_count_lines(fp, field, offsets, Trace0Of(file),
                                    BSizeOf(file))} :
            /\ fp' = r.h
            /\ call' = [NoGeomCall EXCEPT
                          !.op = "count_lines", !.err = r.err, !.field = field,
                          !.offsets = offsets,
                          !.l1out = IF r.written THEN r.l1out ELSE Unset,
                          !.l2out = IF r.written THEN r.l2out ELSE Unset]
    /\ UNCHANGED <<file, platform, fm, pc, insp, os>>

NextGeom == GeomMmap \/ GeomSorting \/ GeomOffsets \/ GeomCountLines

SpecGeom == InitGeom /\ [][NextGeom]_vars

----------------------------------------------------------------------------
(* Line access of a client that knows the geometry of the cube it opened.   *)

InitLines ==
    /\ os = Pristine
    /\ file \in Cubes
    /\ platform = Lp64
    /\ \E o \in {segy_binheader(segy_open("rb"))} :
          /\ o.err = SEGY_OK
          /\ fp = o.h
    /\ fm = NoHandle
    /\ pc = "inline_indices"
    /\ insp = [NoLocals EXCEPT
                 !.trace0 = segy_trace0(file.bin),
                 !.trace_bsize = segy_trace_bsize(segy_samples(file.bin)),
                 !.sorting = file.geom.sorting,
                 !.offsets = file.geom.offsets,
                 !.inline_count = file.geom.inlines,
                 !.crossline_count = file.geom.crosslines]
    /\ call = [op |-> "none"]

LinesInlineIndices ==
    /\ pc = "inline_indices"
    /\ \E r \in {segy_inline_indices(fp, INLINE_3D, insp.sorting,
                                     insp.inline_count, insp.crossline_count,
                                     insp.offsets, insp.trace0,
                                     insp.trace_bsize)} :
          /\ fp' = r.h
          /\ insp' = [insp EXCEPT !.err = r.err, !.inline_indices = r.buf]
          /\ pc' = IF r.err = SEGY_OK THEN "crossline_indices" ELSE "exit"
    /\ call' = [op |-> "inline_indices"]
    /\ UNCHANGED <<file, platform, fm, os>>

LinesCrosslineIndices ==
    /\ pc = "crossline_indices"
    /\ \E r \in {segy_crossline_indices(fp, CROSSLINE_3D, insp.sorting,
                                        insp.inline_count, insp.crossline_count,
                                        insp.offsets, insp.trace0,
                                        insp.trace_bsize)} :
          /\ fp' = r.h
          /\ insp' = [insp EXCEPT !.err = r.err, !.crossline_indices = r.buf]
          /\ pc' = IF r.err = SEGY_OK THEN "client" ELSE "exit"
    /\ call' = [op |-> "crossline_indices"]
    /\ UNCHANGED <<file, platform, fm, os>>

\* the arguments a line direction takes: its index vector, length and stride
LineArgs(dir) ==
    IF dir = "inline"
    THEN [linenos |-> insp.inline_indices,
          length  |-> segy_inline_length(insp.crossline_count),
          stride  |-> segy_inline_stride(insp.sorting, insp.inline_count)]
    ELSE [linenos |-> insp.crossline_indices,
          length  |-> segy_crossline_length(insp.inline_count),
          stride  |-> segy_crossline_stride(insp.sorting, insp.crossline_count)]

LinesLineTrace0 ==
    /\ pc = "client"
    /\ \E dir \in {"inline", "crossline"}, lineno \in 0..MaxLineNo :
         \E a \in {LineArgs(dir)} :
         \E r \in {segy_line_trace0(lineno, a.length, a.stride.stride,
                                    insp.offsets, a.linenos, Len(a.linenos),
                                    Unset)} :
            call' = [op |-> "line_trace0", dir |-> dir, lineno |-> lineno,
                     length |-> a.length, stride |-> a.stride.stride,
                     before |-> Unset, err |-> r.err, traceno |-> r.traceno]
    /\ UNCHANGED <<file, platform, fp, fm, pc, insp, os>>

LinesReadLine ==
    /\ pc = "client"
    /\ call.op = "line_trace0"
    /\ call.err = SEGY_OK
    /\ \E r \in {segy_read_line(fp, call.traceno, call.length, call.stride,
                                insp.offsets, insp.trace0, insp.trace_bsize)} :
          /\ fp' = r.h
          /\ call' = [op |-> "read_line", dir |-> call.dir,
                      lineno |-> call.lineno, err |-> r.err, buf |-> r.buf]
    /\ UNCHANGED <<file, platform, fm, pc, insp, os>>

NextLines ==
    \/ LinesInlineIndices
    \/ LinesCrosslineIndices
    \/ LinesLineTrace0
    \/ LinesReadLine

SpecLines == InitLines /\ [][NextLines]_vars

----------------------------------------------------------------------------
(* Reading and writing through one handle: a client opens a file that ends  *)
(* on a trace boundary, read-only or read-write, may upgrade the handle to  *)
(* a mapping, and reads and writes traces and headers.                      *)

\* what the client has written into a file: its text headers are numbered
RWFile(ext, samples, n) ==
    [bin    |-> [ExtendedHeaders |-> ext, Samples |-> samples, JobID |-> 1],
     size   |-> IOFile(ext, samples, n, 0).size,
     traces |-> IOFile(ext, samples, n, 0).traces,
     text   |-> [j \in 0..ext |-> [enc |-> "ebcdic", id |-> j]],
     tail   |-> NoTail]

RWFiles ==
    { RWFile(e, s, n) : e \in 0..MaxExt, s \in 0..MaxSamples, n \in 0..MaxIOTraces }

\* the buffers the client passes to the write calls
NewSamples(f) ==
    [kind |-> "samples", data |-> [j \in 1..segy_samples(f.bin) |-> 90 + j]]

NewHeader ==
    [kind |-> "header",
     hdr  |-> (offset :> 9) @@ (INLINE_3D :> 9) @@ (CROSSLINE_3D :> 9)]

NewBinheader(f) == [kind |-> "bin", bin |-> [f.bin EXCEPT !.JobID = 2]]

NewText == [enc |-> "ascii", id |-> 9]

RWCall(op, traceno, err, buf) ==
    [op |-> op, traceno |-> traceno, err |-> err, buf |-> buf]

\* the traces the client writes: those of the file, and the place after the
\* last one while the file is no longer than the files it started from
WriteNos ==
    0..(IF WholeTraces(file) <= MaxIOTraces THEN WholeTraces(file)
        ELSE WholeTraces(file) - 1)

InitRW ==
    /\ os = Pristine
    /\ file \in RWFiles
    /\ platform \in Platforms
    /\ \E mode \in {"rb", "r+b"} : fp = segy_open(mode)
    /\ fm = NoHandle
    /\ pc = "client"
    /\ insp = NoInsp
    /\ call = RWCall("none", 0, SEGY_OK, Untouched)

RWMmap ==
    /\ pc = "client"
    /\ ~fp.addr
    /\ \E r \in {segy_mmap(fp)} :
          /\ fp' = r.h
          /\ call' = RWCall("mmap", 0, r.err, Untouched)
    /\ UNCHANGED <<file, platform, fm, pc, insp, os>>

RWReadTrace ==
    /\ pc = "client"
    /\ \E i \in 0..WholeTraces(file) :
         \E r \in {segy_readtrace(fp, i, Trace0Of(file), BSizeOf(file))} :
            /\ fp' = r.h
            /\ pc' = AfterCall(r.err, r.err)
            /\ call' = RWCall("readtrace", i, r.err, r.buf)
    /\ UNCHANGED <<file, platform, fm, insp, os>>

\* what a write call leaves behind
Written(op, i, w) ==
    /\ fp' = w.h
    /\ file' = w.file
    /\ pc' = AfterCall(w.err, w.err)
    /\ call' = RWCall(op, i, w.err, Untouched)
    /\ UNCHANGED <<platform, fm, insp, os>>

RWWriteTrace ==
    /\ pc = "client"
    /\ \E i \in WriteNos :
          Written("writetrace", i,
                  segy_writetrace(fp, file, i, NewSamples(file), Trace0Of(file),
                                  BSizeOf(file)))

RWWriteTraceHeader ==
    /\ pc = "client"
    /\ \E i \in WriteNos :
          Written("write_traceheader", i,
                  segy_write_traceheader(fp, file, i, NewHeader, Trace0Of(file),
                                         BSizeOf(file)))

\* a line of one trace, or of the last trace and the place after it
RWWriteLine ==
    /\ pc = "client"
    /\ \E i \in WriteNos, len \in 1..2 :
          /\ i + len - 1 \in WriteNos
          /\ Written("write_line", i,
                     segy_write_line(fp, file, i, 1, 1,
                                     [j \in 1..len |-> NewSamples(file)],
                                     Trace0Of(file), BSizeOf(file)))

RWWriteBinheader ==
    /\ pc = "client"
    /\ Written("write_binheader", 0,
               segy_write_binheader(fp, file, NewBinheader(file)))

RWWriteTextheader ==
    /\ pc = "client"
    /\ \E pos \in 0..BinField(file.bin, "ExtendedHeaders") :
          Written("write_textheader", pos,
                  WriteTextHeader(fp, file, pos, NewText))

NextRW ==
    \/ RWMmap
    \/ RWReadTrace
    \/ RWWriteTrace
    \/ RWWriteTraceHeader
    \/ RWWriteLine
    \/ RWWriteBinheader
    \/ RWWriteTextheader

SpecRW == InitRW /\ [][NextRW]_vars

----------------------------------------------------------------------------
(* The file object of the Python extension (segyiofd).  Its member fd.fd is *)
(* the variable fp, NoHandle standing for NULL.  A client constructs the    *)
(* object, opens files on it, asks for flushes, mappings, trace headers,    *)
(* and closes it as often as it likes.                                      *)

\* Python's None and the exceptions the extension raises
None == "None"
IOError == "IOError"
ValueError == "ValueError"

\* fopen( path, mode ) has returned one more stream
fopen(o) == [o EXCEPT !.fclosed = Append(o.fclosed, 0)]

\* fclose on the s-th stream
fclose(o, s) == [o EXCEPT !.fclosed[s] = o.fclosed[s] + 1]

\* mmap( NULL, fsize, ... ) has returned one more region; fp->addr is set to it
mmap(o) ==
    [o EXCEPT !.unmapped = Append(o.unmapped, 0),
              !.mapping = Len(o.unmapped) + 1]

\* munmap on the r-th region
munmap(o, r) == [o EXCEPT !.unmapped[r] = o.unmapped[r] + 1]

\* what msync returns when it fails, handed on by segy_flush as it is
syncerr == "-1"

\* msync of a mapped handle, then fflush; through a null pointer the first
\* read of fp->addr ends the process.  steps are the calls made, in order
segy_flush(h, async) ==
    IF ~h.open THEN [err |-> Fault, synced |-> FALSE, steps |-> <<>>]
    ELSE IF h.addr /\ "msync" \in os.failing
    THEN [err |-> syncerr, synced |-> FALSE, steps |-> <<"msync">>]
    ELSE [err |-> IF "fflush" \in os.failing THEN SEGY_FWRITE_ERROR
                  ELSE SEGY_OK,
          synced |-> h.addr,
          steps |-> IF h.addr THEN <<"msync", "fflush">> ELSE <<"fflush">>]

\* flush, munmap of the region fp->addr names, fclose, free
segy_close(h, o) ==
    With(segy_flush(h, FALSE), LAMBDA flushed :
       IF flushed.err = Fault THEN [err |-> Fault, os |-> o, steps |-> <<>>]
       ELSE IF h.addr
       THEN [err |-> SEGY_OK, os |-> fclose(munmap(o, o.mapping), o.stream),
             steps |-> flushed.steps \o <<"munmap", "fclose", "free">>]
       ELSE [err |-> flushed.err, os |-> fclose(o, o.stream),
             steps |-> flushed.steps \o <<"fclose", "free">>])

\* the handle is gone: the object points to no stream and no region
Forgotten(o) == [o EXCEPT !.stream = 0, !.mapping = 0]

\* autofd::operator segy_file*, and the same test in
\* get_FILE_pointer_from_capsule
autofd_unguarded(h) == [exc |-> None, fd |-> h]

autofd(h) ==
    IF h.open THEN [exc |-> None, fd |-> h] ELSE [exc |-> IOError, fd |-> h]

\* the length of the mode string as PyArg_ParseTuple reports it
mode_len(mode) ==
    CASE mode = "" -> 0
      [] mode \in {"rb", "wb", "ab"} -> 2
      [] mode \in {"r+b", "w+b", "a+b"} -> 3
      [] OTHER -> 4

\* found: whether fopen finds the file
fd_init(h, o, mode, found) ==
    IF mode_len(mode) = 0 \/ mode_len(mode) > 3
    THEN [exc |-> ValueError, fd |-> h, os |-> o]
    ELSE IF ~found
    THEN [exc |-> IF mode_len(mode) \in 2..3 THEN IOError ELSE ValueError,
          fd |-> h, os |-> o]
    ELSE With(fopen(o), LAMBDA opened :
       With(IF h.open THEN segy_close(h, opened).os ELSE opened, LAMBDA o2 :
          [exc |-> None, fd |-> segy_open(mode),
           os  |-> [o2 EXCEPT !.stream = Len(opened.fclosed), !.mapping = 0]]))

fd_close_keeps_pointer(h, o) ==
    IF ~h.open THEN [exc |-> None, fd |-> h, os |-> o]
    ELSE With(segy_close(h, o), LAMBDA c :
            [exc |-> IF c.err = Fault THEN Fault ELSE None,
             fd  |-> h, os |-> c.os])

fd_close(h, o) ==
    IF ~h.open THEN [exc |-> None, fd |-> h, os |-> o]
    ELSE With(segy_close(h, o), LAMBDA c :
            [exc |-> IF c.err = Fault THEN Fault ELSE None,
             fd  |-> NoHandle, os |-> Forgotten(c.os)])

fd_flush(h) ==
    With(autofd(h), LAMBDA a :
       IF a.exc # None THEN [exc |-> a.exc]
       ELSE With(segy_flush(a.fd, FALSE), LAMBDA r :
               [exc |-> IF r.err = Fault THEN Fault ELSE None]))

\* ret is the Python bool the method returns
fd_mmap(h, o) ==
    With(autofd(h), LAMBDA a :
       IF a.exc # None THEN [exc |-> a.exc, ret |-> FALSE, fd |-> h, os |-> o]
       ELSE With(segy_mmap(a.fd), LAMBDA r :
               IF r.err # SEGY_OK
               THEN [exc |-> None, ret |-> FALSE, fd |-> r.h, os |-> o]
               ELSE [exc |-> None, ret |-> TRUE, fd |-> r.h, os |-> mmap(o)]))

\* py_handle_segy_error for the codes of the trace header calls
py_handle_segy_error(err) ==
    IF err = SEGY_OK THEN None ELSE IF err = Fault THEN Fault ELSE IOError

py_read_trace_header(h, traceno, trace0, trace_bsize) ==
    With(autofd(h), LAMBDA a :
       IF a.exc # None THEN [exc |-> a.exc, buf |-> Untouched, fd |-> h]
       ELSE With(segy_traceheader(a.fd, traceno, trace0, trace_bsize), LAMBDA r :
               [exc |-> py_handle_segy_error(r.err), buf |-> r.buf, fd |-> r.h]))

py_write_trace_header(h, f, traceno, buf, trace0, trace_bsize) ==
    With(autofd(h), LAMBDA a :
       IF a.exc # None THEN [exc |-> a.exc, fd |-> h, file |-> f]
       ELSE With(segy_write_traceheader(a.fd, f, traceno, buf, trace0, trace_bsize),
                 LAMBDA w :
               [exc |-> py_handle_segy_error(w.err), fd |-> w.h, file |-> w.file]))

\* whether the object's handle is NULL, a stream, or a stream with a mapping
HandleState(h) ==
    IF ~h.open THEN "closed" ELSE IF h.addr THEN "mapped" ELSE "stream"

\* the last method call: its outcome and the state it found the handle in
PyCall(op, exc, ret) ==
    [op |-> op, exc |-> exc, ret |-> ret, was |-> HandleState(fp)]

InitHandle ==
    /\ os = Pristine
    /\ file \in RWFiles
    /\ platform \in Platforms
    /\ fp = NoHandle
    /\ fm = NoHandle
    /\ pc = "client"
    /\ insp = NoInsp
    /\ call = [op |-> "new", exc |-> None, ret |-> FALSE, was |-> "closed"]

FdInit ==
    /\ pc = "client"
    /\ Len(os.fclosed) < MaxOpens
    /\ \E mode \in {"", "rb", "r+b"}, found \in BOOLEAN :
         \E r \in {fd_init(fp, os, mode, found)} :
            /\ fp' = r.fd
            /\ os' = r.os
            /\ call' = PyCall("init", r.exc, FALSE)
    /\ UNCHANGED <<file, platform, fm, pc, insp>>

FdClose ==
    /\ pc = "client"
    /\ \E r \in {fd_close(fp, os)} :
          /\ fp' = r.fd
          /\ os' = r.os
          /\ pc' = AfterCall(r.exc, r.exc)
          /\ call' = PyCall("close", r.exc, FALSE)
    /\ UNCHANGED <<file, platform, fm, insp>>

FdFlush ==
    /\ pc = "client"
    /\ \E r \in {fd_flush(fp)} :
          /\ pc' = AfterCall(r.exc, r.exc)
          /\ call' = PyCall("flush", r.exc, FALSE)
    /\ UNCHANGED <<file, platform, fp, fm, insp, os>>

FdMmap ==
    /\ pc = "client"
    /\ Len(os.unmapped) < MaxMaps
    /\ \E r \in {fd_mmap(fp, os)} :
          /\ fp' = r.fd
          /\ os' = r.os
          /\ call' = PyCall("mmap", r.exc, r.ret)
    /\ UNCHANGED <<file, platform, fm, pc, insp>>

PyReadTraceHeader ==
    /\ pc = "client"
    /\ \E i \in 0..WholeTraces(file) :
         \E r \in {py_read_trace_header(fp, i, Trace0Of(file), BSizeOf(file))} :
            /\ fp' = r.fd
            /\ pc' = AfterCall(r.exc, r.exc)
            /\ call' = PyCall("read", r.exc, FALSE)
    /\ UNCHANGED <<file, platform, fm, insp, os>>

PyWriteTraceHeader ==
    /\ pc = "client"
    /\ \E i \in 0..(WholeTraces(file) - 1) :
         \E w \in {py_write_trace_header(fp, file, i, NewHeader, Trace0Of(file),
                                         BSizeOf(file))} :
            /\ fp' = w.fd
            /\ file' = w.file
            /\ pc' = AfterCall(w.exc, w.exc)
            /\ call' = PyCall("write", w.exc, FALSE)
    /\ UNCHANGED <<platform, fm, insp, os>>

\* the interpreter drops the object
FdDealloc ==
    /\ pc = "client"
    /\ \E o \in {IF fp.open THEN segy_close(fp, os).os ELSE os} :
          os' = Forgotten(o)
    /\ fp' = NoHandle
    /\ pc' = "gone"
    /\ call' = PyCall("dealloc", None, FALSE)
    /\ UNCHANGED <<file, platform, fm, insp>>

NextHandle ==
    \/ FdInit
    \/ FdClose
    \/ FdFlush
    \/ FdMmap
    \/ PyReadTraceHeader
    \/ PyWriteTraceHeader
    \/ FdDealloc

SpecHandle == InitHandle /\ [][NextHandle]_vars

----------------------------------------------------------------------------
(* Header fields byte by byte: a client holds one header buffer, of a trace *)
(* or of the binary header, and sets and gets fields of it by byte offset.  *)
(* A buffer is a function from 0..n-1 to bytes.                             *)

\* htonl( val ): the four bytes of the value as they lie in memory
htonl(val) ==
    With(IF val < 0 THEN val + 2147483647 + 1 ELSE val, LAMBDA low :
       << (low \div 16777216) + (IF val < 0 THEN 128 ELSE 0),
          (low \div 65536) % 256, (low \div 256) % 256, low % 256 >>)

\* (int32_t)ntohl( buf32 ) of four bytes of memory
ntohl(b) ==
    With((b[1] % 128) * 16777216 + b[2] * 65536 + b[3] * 256 + b[4], LAMBDA low :
       IF b[1] >= 128 THEN low - 2147483647 - 1 ELSE low)

\* htons( val ): val is cut to 16 bits
htons(val) == With(val % 65536, LAMBDA u : << u \div 256, u % 256 >>)

\* (int16_t)ntohs( buf16 )
ntohs(b) ==
    With(b[1] * 256 + b[2], LAMBDA u : IF u >= 32768 THEN u - 65536 ELSE u)

\* whether the n bytes at header + at lie in the buffer
Inside(header, at, n) == at \in DOMAIN header /\ (at + n - 1) \in DOMAIN header

\* memcpy( &buf, header + at, n ); a byte behind the buffer is not the
\* header's, stray is what the memory holds there
memcpy_in(header, at, n, stray) ==
    [k \in 1..n |-> IF (at + k - 1) \in DOMAIN header THEN header[at + k - 1]
                    ELSE stray]

\* memcpy( header + at, &buf, sizeof( buf ) )
memcpy_out(header, at, b) ==
    [i \in DOMAIN header |->
        IF i \in at..(at + Len(b) - 1) THEN b[i - at + 1] ELSE header[i]]

\* table[ field ]; behind the last entry the read delivers what the memory
\* there holds, beyond
table_at(table, field, beyond) ==
    IF field \in DOMAIN table THEN table[field] ELSE beyond

\* f is the caller's int before the call; oob: the table was read behind its
\* end, overrun: the copy left the buffer
get_field(header, table, field, f, beyond, stray) ==
    With(table_at(table, field, beyond), LAMBDA bsize :
       IF bsize \in {2, 4}
       THEN [err |-> SEGY_OK,
             f   |-> IF bsize = 4
                     THEN ntohl(memcpy_in(header, field - 1, 4, stray))
                     ELSE ntohs(memcpy_in(header, field - 1, 2, stray)),
             oob |-> field \notin DOMAIN table,
             overrun |-> ~Inside(header, field - 1, bsize)]
       ELSE [err |-> SEGY_INVALID_FIELD, f |-> f,
             oob |-> field \notin DOMAIN table, overrun |-> FALSE])

segy_get_field(traceheader, field, f, beyond, stray) ==
    IF field < 0 \/ field >= SEGY_TRACE_HEADER_SIZE
    THEN [err |-> SEGY_INVALID_FIELD, f |-> f, oob |-> FALSE, overrun |-> FALSE]
    ELSE get_field(traceheader, field_size_table, field, f, beyond, stray)

segy_get_bfield(binheader, field, f, beyond, stray) ==
    With(field - SEGY_TEXT_HEADER_SIZE, LAMBDA biased :
       IF biased < 0 \/ biased >= SEGY_BINARY_HEADER_SIZE
       THEN [err |-> SEGY_INVALID_FIELD, f |-> f, oob |-> FALSE,
             overrun |-> FALSE]
       ELSE get_field(binheader, bfield_size_table, biased, f, beyond, stray))

set_field_host_order(header, table, field, val, beyond) ==
    With(table_at(table, field, beyond), LAMBDA bsize :
       IF bsize \in {2, 4}
       THEN [err |-> SEGY_OK,
             header |-> memcpy_out(header, field - 1,
                                   IF bsize = 4
                                   THEN <<htonl(val)[4], htonl(val)[3],
                                          htonl(val)[2], htonl(val)[1]>>
                                   ELSE <<htons(val)[2], htons(val)[1]>>),
             oob |-> field \notin DOMAIN table,
             overrun |-> ~Inside(header, field - 1, bsize)]
       ELSE [err |-> SEGY_INVALID_FIELD, header |-> header,
             oob |-> field \notin DOMAIN table, overrun |-> FALSE])

set_field(header, table, field, val, beyond) ==
    With(table_at(table, field, beyond), LAMBDA bsize :
       IF bsize \in {2, 4}
       THEN [err |-> SEGY_OK,
             header |-> memcpy_out(header, field - 1,
                                   IF bsize = 4 THEN htonl(val) ELSE htons(val)),
             oob |-> field \notin DOMAIN table,
             overrun |-> ~Inside(header, field - 1, bsize)]
       ELSE [err |-> SEGY_INVALID_FIELD, header |-> header,
             oob |-> field \notin DOMAIN table, overrun |-> FALSE])

segy_set_field(traceheader, field, val, beyond) ==
    IF field < 0 \/ field >= SEGY_TRACE_HEADER_SIZE
    THEN [err |-> SEGY_INVALID_FIELD, header |-> traceheader, oob |-> FALSE,
          overrun |-> FALSE]
    ELSE set_field(traceheader, field_size_table, field, val, beyond)

segy_set_bfield(binheader, field, val, beyond) ==
    With(field - SEGY_TEXT_HEADER_SIZE, LAMBDA biased :
       IF biased < 0 \/ biased >= SEGY_BINARY_HEADER_SIZE
       THEN [err |-> SEGY_INVALID_FIELD, header |-> binheader, oob |-> FALSE,
             overrun |-> FALSE]
       ELSE set_field(binheader, bfield_size_table, biased, val, beyond))

\* the buffers the client starts from: all zero, and no two neighbours alike
Blank(n) == [i \in 0..(n - 1) |-> 0]
Striped(n) == [i \in 0..(n - 1) |-> (7 * i + 3) % 256]

HeaderSize(which) ==
    IF which = "trace" THEN SEGY_TRACE_HEADER_SIZE ELSE SEGY_BINARY_HEADER_SIZE

\* the byte offsets the client asks for: every offset of the header, and the
\* two on either side
FieldArgs(which) ==
    IF which = "trace" THEN -1..(SEGY_TRACE_HEADER_SIZE + 1)
    ELSE (SEGY_TEXT_HEADER_SIZE - 1)..
            (SEGY_TEXT_HEADER_SIZE + SEGY_BINARY_HEADER_SIZE + 1)

\* the values the client sets: the ends of both signed ranges, and values
\* whose bytes all differ
FieldVals ==
    {-2147483647 - 1, -32768, -1, 0, 258, 32767, 16909060, 2147483647}

\* what a read behind a table may deliver, and a byte behind a buffer
Beyond == {0, 2, 4}
Stray == {0, 255}

\* the same, for the calls of a client: what lies behind a table is drawn
\* with the first call that reads there and stays as it is in the later ones
Behind(c, field) ==
    IF c.op # "none" THEN {c.beyond}
    ELSE IF c.which = "trace"
    THEN IF field \in DOMAIN field_size_table THEN {0} ELSE Beyond
    ELSE IF (field - SEGY_TEXT_HEADER_SIZE) \in DOMAIN bfield_size_table
         THEN {0} ELSE Beyond

InitFields ==
    /\ os = Pristine
    /\ file = RWFile(0, 0, 0)
    /\ platform = Lp64
    /\ fp = NoHandle
    /\ fm = NoHandle
    /\ pc = "client"
    /\ insp = NoInsp
    /\ \E which \in {"trace", "bin"} :
         \E header \in {Blank(HeaderSize(which)), Striped(HeaderSize(which))} :
            call = [op |-> "none", which |-> which, header |-> header,
                    field |-> 0, val |-> 0, err |-> SEGY_OK, f0 |-> 0, f |-> 0,
                    oob |-> FALSE, overrun |-> FALSE, filled |-> FALSE,
                    beyond |-> 0]

\* the client picks a byte offset with its first call and stays with it
FieldsOf(c) == IF c.op = "none" THEN FieldArgs(c.which) ELSE {c.field}

FieldsSet ==
    /\ pc = "client"
    /\ \E field \in FieldsOf(call), val \in FieldVals :
       \E beyond \in Behind(call, field) :
         \E r \in {IF call.which = "trace"
                   THEN segy_set_field(call.header, field, val, beyond)
                   ELSE segy_set_bfield(call.header, field, val, beyond)} :
            call' = [call EXCEPT !.op = "set", !.header = r.header,
                                 !.field = field, !.val = val, !.err = r.err,
                                 !.f0 = 0, !.f = 0, !.oob = r.oob,
                                 !.overrun = r.overrun, !.filled = TRUE,
                                 !.beyond = beyond]
    /\ UNCHANGED <<file, platform, fp, fm, pc, insp, os>>

FieldsGet ==
    /\ pc = "client"
    /\ \E field \in FieldsOf(call), f0 \in {-1, 0}, stray \in Stray :
       \E beyond \in Behind(call, field) :
         \E r \in {IF call.which = "trace"
                   THEN segy_get_field(call.header, field, f0, beyond, stray)
                   ELSE segy_get_bfield(call.header, field, f0, beyond, stray)} :
            call' = [call EXCEPT !.op = "get", !.field = field, !.err = r.err,
                                 !.f0 = f0, !.f = r.f, !.oob = r.oob,
                                 !.overrun = r.overrun, !.beyond = beyond]
    /\ UNCHANGED <<file, platform, fp, fm, pc, insp, os>>

NextFields ==
    \/ FieldsSet
    \/ FieldsGet

SpecFields == InitFields /\ [][NextFields]_vars

----------------------------------------------------------------------------
(* IBM and IEEE single precision floats.  A uint32_t is a sequence of 32    *)
(* bits, the most significant first; the IBM word is four bytes of memory   *)
(* in file order.                                                           *)

\* the uint32_t with the bits of the int32_t v
Uint32(v) ==
    With(IF v < 0 THEN v + 2147483647 + 1 ELSE v, LAMBDA low :
       [i \in 1..32 |-> IF i = 1 THEN (IF v < 0 THEN 1 ELSE 0)
                        ELSE (low \div (2 ^ (32 - i))) % 2])

RECURSIVE Horner(_, _)
Horner(w, i) == IF i = 1 THEN 0 ELSE 2 * Horner(w, i - 1) + w[i]

\* the int32_t with the bits of the uint32_t w
Int32(w) == IF w[1] = 1 THEN Horner(w, 32) - 2147483647 - 1 ELSE Horner(w, 32)

\* w << n, w >> n and a | b on uint32_t
shl(w, n) == [i \in 1..32 |-> IF i + n <= 32 THEN w[i + n] ELSE 0]
shr(w, n) == [i \in 1..32 |-> IF i - n >= 1 THEN w[i - n] ELSE 0]
or(a, b) == [i \in 1..32 |-> IF a[i] = 1 \/ b[i] = 1 THEN 1 ELSE 0]

\* (fr >> by) | (exp << at) | (sgn << 31)
pieces(fr, by, exp, at, sgn) ==
    or(or(shr(fr, by), shl(Uint32(exp), at)), shl(Uint32(sgn), 31))

\* while (fr < 0x80000000) { --exp; fr <<= 1; }
RECURSIVE ibm2ieee_normalize(_, _)
ibm2ieee_normalize_skipped(fr, exp) == [fr |-> fr, exp |-> exp]

ibm2ieee_normalize(fr, exp) ==
    IF fr[1] = 0 THEN ibm2ieee_normalize(shl(fr, 1), exp - 1)
    ELSE [fr |-> fr, exp |-> exp]

\* ibm2ieee( to, from ): the uint32_t written to `to`
ibm2ieee(from) ==
    With(Uint32(ntohl(from)), LAMBDA word :
    With(shl(shl(word, 1), 7), LAMBDA fr :
       IF fr = Uint32(0) THEN pieces(fr, 9, 0, 23, word[1])
       ELSE With(ibm2ieee_normalize(fr, Int32(shr(shl(word, 1), 25)) * 4 - 130),
                 LAMBDA n :
               IF n.exp <= 0
               THEN pieces(IF n.exp < -24 THEN Uint32(0) ELSE shr(n.fr, -n.exp),
                           9, 0, 23, word[1])
               ELSE IF n.exp >= 255 THEN pieces(Uint32(0), 9, 255, 23, word[1])
               ELSE pieces(shl(n.fr, 1), 9, n.exp, 23, word[1]))))

\* while (fr < 0x10000000) { --exp; fr <<= 4; }
RECURSIVE ieee2ibm_normalize(_, _)
ieee2ibm_normalize(fr, exp) ==
    IF fr[1] = 0 /\ fr[2] = 0 /\ fr[3] = 0 /\ fr[4] = 0
    THEN ieee2ibm_normalize(shl(fr, 4), exp - 1)
    ELSE [fr |-> fr, exp |-> exp]

\* ieee2ibm( to, from ): the four bytes written to `to`
ieee2ibm(from) ==
    With(Int32(shr(shl(from, 1), 24)), LAMBDA exp :
    With(shl(shl(from, 1), 8), LAMBDA fr :
       IF exp = 255
       THEN htonl(Int32(pieces([i \in 1..32 |-> IF i <= 24 THEN 1 ELSE 0],
                               8, 127, 24, from[1])))
       ELSE IF exp = 0 /\ fr = Uint32(0)
       THEN htonl(Int32(pieces(fr, 8, exp, 24, from[1])))
       ELSE With(IF exp > 0 THEN or(shr(fr, 1), shl(Uint32(1), 31)) ELSE fr,
                 LAMBDA digits :
            With(ieee2ibm_normalize(shr(digits, (4 - ((exp + 130) % 4)) % 4),
                                    (exp + 130 + 3) \div 4), LAMBDA n :
               htonl(Int32(pieces(n.fr, 8, n.exp, 24, from[1])))))))

\* the IBM words a client converts: sign, exponent and 24 bits of fraction
IbmExponents == {0, 1, 31, 32, 33, 34, 64, 65, 66, 95, 96, 97, 127}

IbmFractions ==
    {0, 1, 524288, 1048575, 1048576, 1048577, 2097151, 8388607, 8388608,
     8388609, 11259375, 16777215}

IbmWord(sgn, exp, fraction) ==
    << 128 * sgn + exp, fraction \div 65536, (fraction \div 256) % 256,
       fraction % 256 >>

InitFloat ==
    /\ os = Pristine
    /\ file = RWFile(0, 0, 0)
    /\ platform = Lp64
    /\ fp = NoHandle
    /\ fm = NoHandle
    /\ pc = "client"
    /\ insp = NoInsp
    /\ \E sgn \in {0, 1}, exp \in IbmExponents, fraction \in IbmFractions :
          call = [op |-> "none", x |-> IbmWord(sgn, exp, fraction),
                  ieee |-> Uint32(0), back |-> <<0, 0, 0, 0>>]

FloatIbm2Ieee ==
    /\ pc = "client"
    /\ call.op = "none"
    /\ call' = [call EXCEPT !.op = "ibm2ieee", !.ieee = ibm2ieee(call.x)]
    /\ UNCHANGED <<file, platform, fp, fm, pc, insp, os>>

FloatIeee2Ibm ==
    /\ pc = "client"
    /\ call.op = "ibm2ieee"
    /\ call' = [call EXCEPT !.op = "ieee2ibm", !.back = ieee2ibm(call.ieee)]
    /\ UNCHANGED <<file, platform, fp, fm, pc, insp, os>>

NextFloat ==
    \/ FloatIbm2Ieee
    \/ FloatIeee2Ibm

SpecFloat == InitFloat /\ [][NextFloat]_vars

----------------------------------------------------------------------------
(* The text header byte by byte.  A buffer is a sequence of bytes; a C      *)
(* string is read out of the memory that begins at its pointer, which is    *)
(* the buffer followed by what lies behind it.  The tables are indexed from *)
(* 1, so table[c + 1] is the source's table[c].                             *)

a2e ==
    << 0, 1, 2, 3, 55, 45, 46, 47, 22, 5, 37, 11, 12, 13, 14, 15,
       16, 17, 18, 19, 60, 61, 50, 38, 24, 25, 63, 39, 28, 29, 30, 31,
       64, 79, 127, 123, 91, 108, 80, 125, 77, 93, 92, 78, 107, 96, 75, 97,
       240, 241, 242, 243, 244, 245, 246, 247, 248, 249, 122, 94, 76, 126, 110, 111,
       124, 193, 194, 195, 196, 197, 198, 199, 200, 201, 209, 210, 211, 212, 213, 214,
       215, 216, 217, 226, 227, 228, 229, 230, 231, 232, 233, 74, 224, 90, 95, 109,
       121, 129, 130, 131, 132, 133, 134, 135, 136, 137, 145, 146, 147, 148, 149, 150,
       151, 152, 153, 162, 163, 164, 165, 166, 167, 168, 169, 192, 106, 208, 161, 7,
       32, 33, 34, 35, 36, 21, 6, 23, 40, 41, 42, 43, 44, 9, 10, 27,
       48, 49, 26, 51, 52, 53, 54, 8, 56, 57, 58, 59, 4, 20, 62, 225,
       65, 66, 67, 68, 69, 70, 71, 72, 73, 81, 82, 83, 84, 85, 86, 87,
       88, 89, 98, 99, 100, 101, 102, 103, 104, 105, 112, 113, 114, 115, 116, 117,
       118, 119, 120, 128, 138, 139, 140, 141, 142, 143, 144, 154, 155, 156, 157, 158,
       159, 160, 170, 171, 172, 173, 174, 175, 176, 177, 178, 179, 180, 181, 182, 183,
       184, 185, 186, 187, 188, 189, 190, 191, 202, 203, 204, 205, 206, 207, 218, 219,
       220, 221, 222, 223, 234, 235, 236, 237, 238, 239, 250, 251, 252, 253, 254, 255 >>

e2a ==
    << 0, 1, 2, 3, 156, 9, 134, 127, 151, 141, 142, 11, 12, 13, 14, 15,
       16, 17, 18, 19, 157, 133, 8, 135, 24, 25, 146, 143, 28, 29, 30, 31,
       128, 129, 130, 131, 132, 10, 23, 27, 136, 137, 138, 139, 140, 5, 6, 7,
       144, 145, 22, 147, 148, 149, 150, 4, 152, 153, 154, 155, 20, 21, 158, 26,
       32, 160, 161, 162, 163, 164, 165, 166, 167, 168, 91, 46, 60, 40, 43, 33,
       38, 169, 170, 171, 172, 173, 174, 175, 176, 177, 93, 36, 42, 41, 59, 94,
       45, 47, 178, 179, 180, 181, 182, 183, 184, 185, 124, 44, 37, 95, 62, 63,
       186, 187, 188, 189, 190, 191, 192, 193, 194, 96, 58, 35, 64, 39, 61, 34,
       195, 97, 98, 99, 100, 101, 102, 103, 104, 105, 196, 197, 198, 199, 200, 201,
       202, 106, 107, 108, 109, 110, 111, 112, 113, 114, 203, 204, 205, 206, 207, 208,
       209, 126, 115, 116, 117, 118, 119, 120, 121, 122, 210, 211, 212, 213, 214, 215,
       216, 217, 218, 219, 220, 221, 222, 223, 224, 225, 226, 227, 228, 229, 230, 231,
       123, 65, 66, 67, 68, 69, 70, 71, 72, 73, 232, 233, 234, 235, 236, 237,
       125, 74, 75, 76, 77, 78, 79, 80, 81, 82, 238, 239, 240, 241, 242, 243,
       92, 159, 83, 84, 85, 86, 87, 88, 89, 90, 244, 245, 246, 247, 248, 249,
       48, 49, 50, 51, 52, 53, 54, 55, 56, 57, 250, 251, 252, 253, 254, 255 >>

\* the number of bytes before the first zero byte of the memory s
strlen(s) ==
    With({k \in 1..Len(s) : s[k] = 0}, LAMBDA zeros :
       (CHOOSE z \in zeros : \A y \in zeros : z <= y) - 1)

\* while( *from != '\0' ) *to++ = table[ (unsigned char) *from++ ]; *to = '\0';
\* the buffer at `to` afterwards, the characters found, and the number of
\* bytes stored behind the end of that buffer
transcode(table, from, to) ==
    With(strlen(from), LAMBDA n :
       [to |-> [i \in 1..Len(to) |->
                   IF i <= n THEN table[from[i] + 1]
                   ELSE IF i = n + 1 THEN 0 ELSE to[i]],
        n |-> n,
        overrun |-> IF n + 1 > Len(to) THEN n + 1 - Len(to) ELSE 0])

ebcdic2ascii(ebcdic, ascii) == transcode(e2a, ebcdic, ascii)

ascii2ebcdic_by_e2a(ascii, ebcdic) == transcode(e2a, ascii, ebcdic)

ascii2ebcdic(ascii, ebcdic) == transcode(a2e, ascii, ebcdic)

\* segy_read_textheader( fp, buf ), buf of SEGY_TEXT_HEADER_SIZE + 1 bytes
segy_read_textheader(h, buf) ==
    IF ~h.open THEN [err |-> SEGY_FSEEK_ERROR, h |-> h, buf |-> buf]
    ELSE With(fread(rewind(h), SEGY_TEXT_HEADER_SIZE), LAMBDA r :
            IF r.count # SEGY_TEXT_HEADER_SIZE
            THEN [err |-> SEGY_FREAD_ERROR, h |-> r.h, buf |-> buf]
            ELSE [err |-> SEGY_OK, h |-> r.h,
                  buf |-> ebcdic2ascii(r.buf.text \o <<0>>,
                                       r.buf.text \o <<0>>).to])

\* segy_write_textheader( fp, pos, buf ): buf is the memory at the caller's
\* pointer, mbuf what the stack holds where the staging buffer comes to lie
segy_write_textheader(h, f, pos, buf, mbuf) ==
    With(ascii2ebcdic(buf, mbuf), LAMBDA t :
    With(fseek_set(h, S64(IF pos = 0 THEN 0
                          ELSE SEGY_TEXT_HEADER_SIZE + SEGY_BINARY_HEADER_SIZE
                                 + (pos - 1) * SEGY_TEXT_HEADER_SIZE)),
         LAMBDA s :
       IF s.err # 0
       THEN [err |-> SEGY_FSEEK_ERROR, h |-> s.h, file |-> f, n |-> t.n,
             overrun |-> t.overrun]
       ELSE With(fwrite(s.h, f, SEGY_TEXT_HEADER_SIZE,
                        [kind |-> "text",
                         text |-> SubSeq(t.to, 1, SEGY_TEXT_HEADER_SIZE)]),
                 LAMBDA w :
               [err |-> IF w.count # SEGY_TEXT_HEADER_SIZE
                        THEN SEGY_FWRITE_ERROR ELSE SEGY_OK,
                h |-> w.h, file |-> w.file, n |-> t.n,
                overrun |-> t.overrun])))

\* fd::puttext( index, buffer ) with a bytes object of the given size: the
\* heap buffer of SEGY_TEXT_HEADER_SIZE zeroed bytes takes the first bytes of
\* it; behind is what the heap holds after that buffer
puttext(h, f, index, buffer, behind, mbuf) ==
    IF ~h.open
    THEN [err |-> SEGY_OK, h |-> h, file |-> f, n |-> 0, overrun |-> 0,
          exc |-> ValueError]
    ELSE With(segy_write_textheader(h, f, index,
                 [i \in 1..SEGY_TEXT_HEADER_SIZE |->
                     IF i <= Len(buffer) THEN buffer[i] ELSE 0] \o behind,
                 mbuf), LAMBDA r :
            [err |-> r.err, h |-> r.h, file |-> r.file, n |-> r.n,
             overrun |-> r.overrun, exc |-> py_handle_segy_error(r.err)])

\* a text of fill bytes whose k-th byte is b
TextOf(fill, k, b) ==
    [i \in 1..SEGY_TEXT_HEADER_SIZE |-> IF i = k THEN b ELSE fill]

\* where the one other byte of a text lies
TextPlaces == {1, 2, SEGY_TEXT_HEADER_SIZE}

\* the text headers of the files the client opens, in EBCDIC: blanks with
\* one zero byte or one letter A
DiskTexts == { TextOf(64, k, b) : k \in TextPlaces, b \in {0, 193} }

\* the texts a client of the C library writes: letters C with one zero byte
\* or one letter A, and the terminating zero the interface asks for
CTexts == { TextOf(67, k, b) \o <<0>> : k \in TextPlaces, b \in {0, 65} }

\* the bytes objects a Python client writes: letters C, a text header long
\* or one byte longer, or a single letter
PyTexts ==
    { [i \in 1..n |-> 67] : n \in {1, SEGY_TEXT_HEADER_SIZE,
                                   SEGY_TEXT_HEADER_SIZE + 1} }

\* what the memory of a buffer holds before anything is stored in it, and
\* what lies behind a heap buffer, up to the next zero byte
Indeterminates == {0, 170}
Behinds == {<<0>>, <<90, 0>>}

TextCall(op, err, buf, back, overread, overrun) ==
    [op |-> op, err |-> err, buf |-> buf, back |-> back,
     overread |-> overread, overrun |-> overrun]

InitText ==
    /\ os = Pristine
    /\ \E text \in DiskTexts :
          file = [RWFile(0, 0, 0) EXCEPT !.text = [j \in {0} |-> text]]
    /\ platform = Lp64
    /\ \E mode \in {"rb", "r+b"} : fp = segy_open(mode)
    /\ fm = NoHandle
    /\ pc = "client"
    /\ insp = NoInsp
    /\ call = TextCall("none", SEGY_OK, <<>>, <<>>, 0, 0)

\* a read into a zeroed buffer
TextRead ==
    /\ pc = "client"
    /\ \E r \in {segy_read_textheader(fp,
                    [i \in 1..(SEGY_TEXT_HEADER_SIZE + 1) |-> 0])} :
          /\ fp' = r.h
          /\ call' = TextCall("read", r.err, r.buf, <<>>, 0, 0)
    /\ UNCHANGED <<file, platform, fm, pc, insp, os>>

\* ascii2ebcdic of what a read has delivered, into a buffer of its own
TextRoundTrip ==
    /\ pc = "client"
    /\ call.op = "read"
    /\ call.err = SEGY_OK
    /\ \E fill \in Indeterminates :
       \E t \in {ascii2ebcdic(call.buf,
                    [i \in 1..(SEGY_TEXT_HEADER_SIZE + 1) |-> fill])} :
          call' = TextCall("roundtrip", SEGY_OK, call.buf, t.to, 0, t.overrun)
    /\ UNCHANGED <<file, platform, fp, fm, pc, insp, os>>

\* the results of a write: behind the staging buffer lies the frame of the
\* caller, a store there either goes unnoticed or ends the process
Stored(op, buf, size, r) ==
    /\ \E err \in (IF r.overrun > 0 THEN {r.err, Fault} ELSE {r.err}) :
          call' = TextCall(op, err, buf, <<>>,
                           IF r.n + 1 > size THEN r.n + 1 - size ELSE 0,
                           r.overrun)
    /\ fp' = r.h
    /\ file' = r.file
    /\ UNCHANGED <<platform, fm, pc, insp, os>>

TextWrite ==
    /\ pc = "client"
    /\ \E buf \in CTexts, fill \in Indeterminates :
          Stored("write", buf, Len(buf),
                 segy_write_textheader(fp, file, 0, buf,
                    [i \in 1..(SEGY_TEXT_HEADER_SIZE + 1) |-> fill]))

TextPut ==
    /\ pc = "client"
    /\ \E buffer \in PyTexts, behind \in Behinds, fill \in Indeterminates :
          Stored("puttext", buffer, SEGY_TEXT_HEADER_SIZE,
                 puttext(fp, file, 0, buffer, behind,
                    [i \in 1..(SEGY_TEXT_HEADER_SIZE + 1) |-> fill]))

NextText ==
    \/ TextRead
    \/ TextRoundTrip
    \/ TextWrite
    \/ TextPut

SpecText == InitText /\ [][NextText]_vars

----------------------------------------------------------------------------
(* The sample interval: a client asks for it with a double of its own.  A   *)
(* double is kept as the number of its thousandths.                         *)

TRACE_SAMPLE_INTERVAL == 117

\* us / 1000.0
Ms(us) == [thousandths |-> us]

\* segy_sample_interval( fp, dt ): dt is what the caller's double holds
segy_sample_interval(h, dt) ==
    With(segy_binheader(h), LAMBDA b :
       IF b.err # SEGY_OK THEN [err |-> b.err, h |-> b.h, dt |-> dt]
       ELSE With(segy_traceheader(b.h, 0, segy_trace0(file.bin),
                    segy_trace_bsize(segy_samples(file.bin))), LAMBDA t :
          IF t.err # SEGY_OK THEN [err |-> t.err, h |-> t.h, dt |-> dt]
          ELSE With(BinField(file.bin, "Interval"), LAMBDA binary_header_dt_us :
               With(HeaderField(t.buf, TRACE_SAMPLE_INTERVAL),
                    LAMBDA trace_header_dt_us :
                  [err |-> SEGY_OK, h |-> t.h,
                   dt |-> IF trace_header_dt_us = 0 /\ binary_header_dt_us = 0
                          THEN dt
                          ELSE IF binary_header_dt_us = 0
                          THEN Ms(trace_header_dt_us)
                          ELSE IF trace_header_dt_us = 0
                          THEN Ms(binary_header_dt_us)
                          ELSE IF trace_header_dt_us = binary_header_dt_us
                          THEN Ms(trace_header_dt_us)
                          ELSE dt]))))

\* the intervals the headers give, in microseconds
Intervals == {0, 1000, 2000, 4000}

\* a file of n traces of one sample whose binary header gives the interval b
\* and whose trace headers give the interval t
IntervalFile(b, t, n) ==
    [bin    |-> [ExtendedHeaders |-> 0, Samples |-> 1, Interval |-> b],
     size   |-> IOFile(0, 1, n, 0).size,
     traces |-> [k \in 1..n |->
                    [hdr  |-> PlainTrace(k, 1).hdr @@ (TRACE_SAMPLE_INTERVAL :> t),
                     data |-> PlainTrace(k, 1).data]]]

IntervalFiles ==
    { IntervalFile(b, t, n) : b \in Intervals, t \in Intervals, n \in 0..1 }

\* what the caller's double holds before the call
Doubles == {Ms(0), Ms(7000)}

InitInterval ==
    /\ os = Pristine
    /\ file \in IntervalFiles
    /\ platform \in Platforms
    /\ fp = segy_open("rb")
    /\ fm = NoHandle
    /\ pc = "client"
    /\ insp = NoInsp
    /\ \E dt \in Doubles :
          call = [op |-> "none", err |-> SEGY_OK, dt0 |-> dt, dt |-> dt]

IntervalMmap ==
    /\ pc = "client"
    /\ ~fp.addr
    /\ call.op = "none"
    /\ \E r \in {segy_mmap(fp)} :
          /\ fp' = r.h
          /\ call' = [call EXCEPT !.op = "mmap", !.err = r.err]
    /\ UNCHANGED <<file, platform, fm, pc, insp, os>>

IntervalSampleInterval ==
    /\ pc = "client"
    /\ call.op \in {"none", "mmap"}
    /\ \E r \in {segy_sample_interval(fp, call.dt0)} :
          /\ fp' = r.h
          /\ call' = [call EXCEPT !.op = "sample_interval", !.err = r.err,
                                  !.dt = r.dt]
    /\ UNCHANGED <<file, platform, fm, pc, insp, os>>

NextInterval ==
    \/ IntervalMmap
    \/ IntervalSampleInterval

SpecInterval == InitInterval /\ [][NextInterval]_vars

----------------------------------------------------------------------------
(* A client of the C library with one handle: it may map it, flush it, ask  *)
(* for offsets and line numbers, and closes it in the end.  The system      *)
(* calls named in os.failing fail when they are made.                       *)

\* the last call: its return value, the error of the step inside it that
\* failed first (SEGY_OK when none did), and the system calls it made
ReleaseCall(op, err, step, steps) ==
    [op |-> op, err |-> err, step |-> step, steps |-> steps]

InitRelease ==
    /\ \E failing \in SUBSET {"msync", "fflush"} :
          os = [fopen(Pristine) EXCEPT !.stream = 1, !.failing = failing]
    /\ \E n \in 0..MaxIOTraces : file = RWFile(0, 1, n)
    /\ platform \in Platforms
    /\ \E mode \in {"rb", "r+b"} : fp = segy_open(mode)
    /\ fm = NoHandle
    /\ pc = "client"
    /\ insp = NoInsp
    /\ call = ReleaseCall("none", SEGY_OK, SEGY_OK, <<>>)

ReleaseMmap ==
    /\ pc = "client"
    /\ Len(os.unmapped) < MaxMaps
    /\ \E r \in {segy_mmap(fp)} :
          /\ fp' = r.h
          /\ os' = IF r.err = SEGY_OK THEN mmap(os) ELSE os
          /\ call' = ReleaseCall("mmap", r.err, r.err, <<>>)
    /\ UNCHANGED <<file, platform, fm, pc, insp>>

ReleaseFlush ==
    /\ pc = "client"
    /\ \E async \in BOOLEAN :
       \E r \in {segy_flush(fp, async)} :
          call' = ReleaseCall("flush", r.err, r.err, r.steps)
    /\ UNCHANGED <<file, platform, fp, fm, pc, insp, os>>

ReleaseLineIndices ==
    /\ pc = "client"
    /\ \E traceno \in 0..WholeTraces(file) :
       \E r \in {segy_line_indices(fp, INLINE_3D, traceno, 1, 1, Trace0Of(file),
                                   BSizeOf(file))} :
          /\ fp' = r.h
          /\ call' = ReleaseCall("line_indices", r.err,
                        segy_traceheader(fp, traceno, Trace0Of(file),
                                         BSizeOf(file)).err, <<>>)
    /\ UNCHANGED <<file, platform, fm, pc, insp, os>>

ReleaseOffsets ==
    /\ pc = "client"
    /\ \E r \in {segy_offsets(fp, INLINE_3D, CROSSLINE_3D, WholeTraces(file),
                              Trace0Of(file), BSizeOf(file))} :
          /\ fp' = r.h
          /\ pc' = AfterCall(r.err, r.err)
          /\ call' = ReleaseCall("offsets", r.err,
                        IF WholeTraces(file) = 1 THEN SEGY_OK
                        ELSE segy_traceheader(fp, 0, Trace0Of(file),
                                              BSizeOf(file)).err, <<>>)
    /\ UNCHANGED <<file, platform, fm, insp, os>>

\* segy_close frees the handle: the client has none afterwards
ReleaseClose ==
    /\ pc = "client"
    /\ \E r \in {segy_close(fp, os)} :
          /\ os' = Forgotten(r.os)
          /\ call' = ReleaseCall("close", r.err, segy_flush(fp, FALSE).err,
                                 r.steps)
    /\ fp' = NoHandle
    /\ pc' = "closed"
    /\ UNCHANGED <<file, platform, fm, insp>>

NextRelease ==
    \/ ReleaseMmap
    \/ ReleaseFlush
    \/ ReleaseLineIndices
    \/ ReleaseOffsets
    \/ ReleaseClose

SpecRelease == InitRelease /\ [][NextRelease]_vars

----------------------------------------------------------------------------
(* Lines written and read back: a client opens a file for update, perhaps   *)
(* upgrades the handle to a mapping, writes one line with segy_write_line   *)
(* and reads it with segy_read_line, passing both the same arguments.       *)

\* the sample buffer the client holds for the k-th trace of its line
LineSamples(f, k) ==
    [kind |-> "samples", data |-> [j \in 1..segy_samples(f.bin) |-> 100 * k + j]]

\* what the client remembers of its write
NoLine ==
    [line_trace0 |-> 0, line_length |-> 0, stride |-> 0, offsets |-> 0,
     buf |-> <<>>, err |-> SEGY_OK, before |-> Unset]

LineCall(op, err, buf) == [op |-> op, err |-> err, buf |-> buf]

InitLineRW ==
    /\ os = Pristine
    /\ \E n \in 1..MaxLineTraces : file = RWFile(0, 1, n)
    /\ platform \in Platforms
    /\ fp = segy_open("r+b")
    /\ fm = NoHandle
    /\ pc = "client"
    /\ insp = NoLine
    /\ call = LineCall("none", SEGY_OK, <<>>)

LineRWMmap ==
    /\ pc = "client"
    /\ ~fp.addr
    /\ \E r \in {segy_mmap(fp)} :
          /\ fp' = r.h
          /\ call' = LineCall("mmap", r.err, <<>>)
    /\ UNCHANGED <<file, platform, fm, pc, insp, os>>

\* the line the arguments name lies in the file
LineRWWriteLine ==
    /\ pc = "client"
    /\ \E line_trace0 \in 0..(WholeTraces(file) - 1), line_length \in 1..MaxDim,
          stride \in 1..MaxDim, offsets \in 1..MaxDim :
          /\ line_trace0 + (line_length - 1) * stride * offsets
                < WholeTraces(file)
          /\ \E buf \in {[k \in 1..line_length |-> LineSamples(file, k)]} :
             \E w \in {segy_write_line(fp, file, line_trace0, stride, offsets,
                                       buf, Trace0Of(file), BSizeOf(file))} :
                /\ fp' = w.h
                /\ file' = w.file
                /\ pc' = IF w.err = Fault THEN "killed" ELSE "written"
                /\ insp' = [line_trace0 |-> line_trace0,
                            line_length |-> line_length, stride |-> stride,
                            offsets |-> offsets, buf |-> buf, err |-> w.err,
                            before |-> file]
                /\ call' = LineCall("write_line", w.err, <<>>)
    /\ UNCHANGED <<platform, fm, os>>

LineRWReadLine ==
    /\ pc = "written"
    /\ \E r \in {segy_read_line(fp, insp.line_trace0, insp.line_length,
                                insp.stride, insp.offsets, Trace0Of(file),
                                BSizeOf(file))} :
          /\ fp' = r.h
          /\ pc' = IF r.err = Fault THEN "killed" ELSE "read"
          /\ call' = LineCall("read_line", r.err, r.buf)
    /\ UNCHANGED <<file, platform, fm, insp, os>>

NextLineRW ==
    \/ LineRWMmap
    \/ LineRWWriteLine
    \/ LineRWReadLine

SpecLineRW == InitLineRW /\ [][NextLineRW]_vars

----------------------------------------------------------------------------
(* What the file itself says, for stating the properties below *)

\* header field of trace t (from 0)
HdrOf(f, t, field) == f.traces[t + 1].hdr[field]

Least(S) == CHOOSE n \in S : \A m \in S : n <= m

\* the trace the offset walk of the sorting detection stops at: the first
\* after trace 0 with trace 0's offset, the last trace when there is none
WalkStop(f) ==
    LET S == { j \in 1..(WholeTraces(f) - 1) :
                 HdrOf(f, j, offset) = HdrOf(f, 0, offset) }
    IN IF S # {} THEN Least(S) ELSE WholeTraces(f) - 1

\* the first matching row of the tie-break table
TieBreak(f) ==
    LET last == WholeTraces(f) - 1
        stop == WalkStop(f)
    IN IF HdrOf(f, 0, INLINE_3D) = HdrOf(f, last, INLINE_3D)
       THEN CROSSLINE_SORTING
       ELSE IF HdrOf(f, 0, CROSSLINE_3D) = HdrOf(f, last, CROSSLINE_3D)
       THEN INLINE_SORTING
       ELSE IF HdrOf(f, 0, INLINE_3D) = HdrOf(f, stop, INLINE_3D)
       THEN INLINE_SORTING
       ELSE IF HdrOf(f, 0, CROSSLINE_3D) = HdrOf(f, stop, CROSSLINE_3D)
       THEN CROSSLINE_SORTING
       ELSE UNKNOWN_SORTING

\* the first trace on another (inline, crossline) than trace 0, T when none
FirstOtherLine(f) ==
    LET S == { n \in 1..(WholeTraces(f) - 1) :
                 \/ HdrOf(f, n, INLINE_3D) # HdrOf(f, 0, INLINE_3D)
                 \/ HdrOf(f, n, CROSSLINE_3D) # HdrOf(f, 0, CROSSLINE_3D) }
    IN IF S # {} THEN Least(S) ELSE WholeTraces(f)

\* the k >= 1 for which trace k*offsets exists and repeats trace 0's field
\* value and offset
LineRepeats(f, field, offsets) ==
    { k \in 1..WholeTraces(f) :
        /\ k * offsets < WholeTraces(f)
        /\ HdrOf(f, k * offsets, field) = HdrOf(f, 0, field)
        /\ HdrOf(f, k * offsets, offset) = HdrOf(f, 0, offset) }

\* the values of a field at traces 0, stride, 2*stride, ...
Strided(f, field, stride, count) ==
    [k \in 1..count |-> HdrOf(f, (k - 1) * stride, field)]

\* the distinct values of a field, in file order of first appearance
RECURSIVE InOrderOfAppearance(_, _, _, _)
InOrderOfAppearance(f, field, t, seen) ==
    IF t = WholeTraces(f) THEN seen
    ELSE InOrderOfAppearance(f, field, t + 1,
            IF \E i \in 1..Len(seen) : seen[i] = HdrOf(f, t, field) THEN seen
            ELSE Append(seen, HdrOf(f, t, field)))

FieldOf(dir) == IF dir = "inline" THEN INLINE_3D ELSE CROSSLINE_3D

\* the first trace whose header carries line number n
FirstTraceOf(f, field, n) ==
    Least({ t \in 0..(WholeTraces(f) - 1) : HdrOf(f, t, field) = n })

\* the samples segy_readtrace delivers for the traces of line n at the first
\* offset, one after the other in file order
RECURSIVE TraceByTrace(_, _, _, _)
TraceByTrace(f, field, n, t) ==
    IF t = WholeTraces(f) THEN <<>>
    ELSE (IF HdrOf(f, t, field) = n /\ HdrOf(f, t, offset) = HdrOf(f, 0, offset)
          THEN SamplesOf(segy_readtrace(fp, t, Trace0Of(f), BSizeOf(f)).buf)
          ELSE <<>>)
         \o TraceByTrace(f, field, n, t + 1)

\* trace0 + i * B without the 64-bit arithmetic of the library: i is split at
\* 2^16 so that both products are small
ExactPos(i, f) ==
    Add64(<<0, ((i \div L16) * TraceLen(f)) \div L16,
               ((i \div L16) * TraceLen(f)) % L16, 0>>,
          S64((i % L16) * TraceLen(f) + Trace0Of(f)))

----------------------------------------------------------------------------
(* The properties *)

(* C1: on every well-formed cube of I inlines, X crosslines and O offsets,    *)
(* in either sorting, the inspector's calls of segy_sorting, segy_offsets     *)
(* and segy_count_lines all succeed and leave inline_count = I,               *)
(* crossline_count = X and offsets = O, whose product is the trace count      *)
(* segy_traces returned.                                                      *)
C1_InspectorYieldsCube ==
    /\ pc # "exit"
    /\ pc \in {"inline_indices", "crossline_indices", "done"} =>
          /\ insp.inline_count = file.geom.inlines
          /\ insp.crossline_count = file.geom.crosslines
          /\ insp.offsets = file.geom.offsets
          /\ insp.inline_count * insp.crossline_count * insp.offsets
                 = IntOf(insp.traces)

(* C2: for every file of T >= 1 traces segy_sorting returns OK with the       *)
(* sorting of the first matching row of the tie-break table (first against    *)
(* last trace, then first against the trace the offset walk stopped at), and  *)
(* InvalidSorting only when no row matches.                                   *)
C2_SortingFollowsTieBreak ==
    call.op = "sorting" =>
        IF TieBreak(file) = UNKNOWN_SORTING
        THEN call.err = SEGY_INVALID_SORTING
        ELSE call.err = SEGY_OK /\ call.sorting = TieBreak(file)

(* C3: for every file of T >= 1 traces segy_offsets succeeds and returns the  *)
(* index of the first trace whose (inline, crossline) pair differs from that  *)
(* of trace 0, or T when none differs; the result is 1 for T = 1 and lies in  *)
(* 1..T.                                                                      *)
C3_OffsetsIsFirstOtherLine ==
    call.op = "offsets" =>
        /\ call.err = SEGY_OK
        /\ call.out = FirstOtherLine(file)
        /\ 1 <= call.out /\ call.out <= WholeTraces(file)
        /\ WholeTraces(file) = 1 => call.out = 1

C3_OffsetsFoundInsideFile ==
    /\ call.op = "offsets"
    /\ call.err = SEGY_OK
    /\ call.out = 2
    /\ WholeTraces(file) > 2

(* C4: count_lines returns the smallest k >= 1 for which trace k*offsets      *)
(* carries trace 0's field value and offset, and segy_count_lines reports     *)
(* the other direction as T / (k * offsets); when no such trace exists below  *)
(* T the call ends with an error and writes no count.                         *)
C4_CountLinesIsFirstRepeat ==
    call.op = "count_lines" =>
        IF LineRepeats(file, call.field, call.offsets) # {}
        THEN /\ call.err = SEGY_OK
             /\ call.l2out = Least(LineRepeats(file, call.field, call.offsets))
             /\ call.l1out = WholeTraces(file) \div (call.l2out * call.offsets)
        ELSE /\ call.err \in {SEGY_FREAD_ERROR, SEGY_FSEEK_ERROR}
             /\ call.l1out = Unset
             /\ call.l2out = Unset

C4_CountedTwoLines ==
    /\ call.op = "count_lines"
    /\ call.err = SEGY_OK
    /\ call.l2out = 2
    /\ call.offsets = 1
    /\ HdrOf(file, 1, offset) = HdrOf(file, 0, offset)

(* C5: on every well-formed cube, in either sorting and given its true        *)
(* counts, segy_inline_indices and segy_crossline_indices succeed and fill    *)
(* their output with the line numbers at traces 0, stride, 2*stride, ...      *)
(* (inline stride X*O when inline sorted, O when crossline sorted, crossline  *)
(* mirrored), which are the distinct line numbers of the file, each once, in  *)
(* file order of first appearance.                                            *)
C5_IndicesListEveryLineOnce ==
    /\ pc # "exit"
    /\ pc \in {"crossline_indices", "client"} =>
          /\ insp.inline_indices =
                 Strided(file, INLINE_3D,
                         IF file.geom.sorting = INLINE_SORTING
                         THEN file.geom.crosslines * file.geom.offsets
                         ELSE file.geom.offsets,
                         file.geom.inlines)
          /\ insp.inline_indices = InOrderOfAppearance(file, INLINE_3D, 0, <<>>)
    /\ pc = "client" =>
          /\ insp.crossline_indices =
                 Strided(file, CROSSLINE_3D,
                         IF file.geom.sorting = INLINE_SORTING
                         THEN file.geom.offsets
                         ELSE file.geom.inlines * file.geom.offsets,
                         file.geom.crosslines)
          /\ insp.crossline_indices
                 = InOrderOfAppearance(file, CROSSLINE_3D, 0, <<>>)

C5_IndicesOfFullCube ==
    /\ pc = "client"
    /\ file.geom.inlines > 1 /\ file.geom.crosslines > 1 /\ file.geom.offsets > 1
    /\ file.geom.sorting = CROSSLINE_SORTING
    /\ insp.inline_indices[1] > insp.inline_indices[2]
    /\ Len(insp.crossline_indices) = file.geom.crosslines

(* C6: on every well-formed cube, for a line number present in the index      *)
(* vector segy_line_trace0, given that line's length and stride, returns the  *)
(* index of the first trace of the file carrying that line number; for an     *)
(* absent line number it returns MissingLineIndex and leaves the output       *)
(* trace number as it was.                                                    *)
C6_LineTrace0IsFirstTraceOfLine ==
    call.op = "line_trace0" =>
        IF \E i \in 1..Len(LineArgs(call.dir).linenos) :
               LineArgs(call.dir).linenos[i] = call.lineno
        THEN /\ call.err = SEGY_OK
             /\ call.traceno = FirstTraceOf(file, FieldOf(call.dir), call.lineno)
        ELSE /\ call.err = SEGY_MISSING_LINE_INDEX
             /\ call.traceno = call.before

C6_LaterLineOfFastDirection ==
    /\ call.op = "line_trace0"
    /\ call.err = SEGY_OK
    /\ call.traceno > 0
    /\ call.stride > 1
    /\ file.geom.offsets > 1

(* C7: for every line number present in a well-formed cube, segy_read_line    *)
(* given the trace number of segy_line_trace0 and the stride of               *)
(* segy_inline_stride or segy_crossline_stride succeeds and returns the       *)
(* samples segy_readtrace returns for the traces of that line at the first    *)
(* offset, concatenated in line order.                                        *)
C7_ReadLineIsTraceByTrace ==
    call.op = "read_line" =>
        /\ call.err = SEGY_OK
        /\ call.buf = TraceByTrace(file, FieldOf(call.dir), call.lineno, 0)

C7_ReadLaterLineWithOffsets ==
    /\ call.op = "read_line"
    /\ call.err = SEGY_OK
    /\ Len(call.buf) > MaxSamples
    /\ file.geom.offsets > 1
    /\ FirstTraceOf(file, FieldOf(call.dir), call.lineno) > 0

(* C8: segy_traces returns OK with traces = (file_size - trace0) / B exactly  *)
(* when file_size - trace0 is a non-negative multiple of B = 240 + samples*4, *)
(* so that traces*B + trace0 = file_size; otherwise it returns                *)
(* TraceSizeMismatch and leaves the output count as it was.                   *)
C8_TracesCountsWholeTraces ==
    call.op = "traces" =>
        IF file.size >= Trace0Of(file)
           /\ (file.size - Trace0Of(file)) % TraceLen(file) = 0
        THEN /\ call.b.err = SEGY_OK
             /\ call.traces = S64((file.size - Trace0Of(file)) \div TraceLen(file))
        ELSE /\ call.b.err = SEGY_TRACE_SIZE_MISMATCH
             /\ call.traces = Unwritten

(* C9: a successful segy_seek(i), i >= 0, leaves the handle's position (the   *)
(* stream position when buffered, the cursor's distance from the mapping's    *)
(* base when mapped) at exactly trace0 + i*(240 + samples*4).                 *)
C9_SeekReachesTracePosition ==
    (call.op = "seek" /\ call.traceno >= 0) =>
        /\ call.b.err = SEGY_OK => fp.pos = ExactPos(call.traceno, file)
        /\ (fm.addr /\ call.m.err = SEGY_OK) =>
               S64(fm.cur) = ExactPos(call.traceno, file)
        /\ (~fm.addr /\ call.m.err = SEGY_OK) =>
               fm.pos = ExactPos(call.traceno, file)

ReadFrom(op, i, f) ==
    Add64(ExactPos(i, f),
          S64(IF op = "readtrace" THEN SEGY_TRACE_HEADER_SIZE ELSE 0))

ReadLen(op, f) == IF op = "readtrace" THEN BSizeOf(f) ELSE SEGY_TRACE_HEADER_SIZE

(* C12: in mapped mode every trace header read and every trace sample read   *)
(* whose byte range [pos, pos+len) is not entirely inside [0, fsize) returns  *)
(* FileSeek and copies no bytes.                                              *)
C12_MappedReadsStayInsideMapping ==
    ( /\ call.op \in {"traceheader", "readtrace"}
      /\ fm.addr
      /\ GeqU64(Add64(ReadFrom(call.op, call.traceno, file),
                      S64(ReadLen(call.op, file))), fm.fsize + 1) ) =>
        /\ call.m.err = SEGY_FSEEK_ERROR
        /\ call.m.buf = Untouched

\* a file that is its headers and whole traces with samples, nothing else
WholeFile(f) ==
    /\ f.size = Trace0Of(f) + WholeTraces(f) * TraceLen(f)
    /\ ~f.tail.has
    /\ BSizeOf(f) > 0

\* what a segy_readtrace of trace j on the client's handle returns
ReadNow(j) == segy_readtrace(fp, j, Trace0Of(file), BSizeOf(file))

WriteOps ==
    {"writetrace", "write_traceheader", "write_line", "write_binheader",
     "write_textheader"}

(* C11: reading the samples of trace index trace_count, one past the last    *)
(* trace, returns an error; the handle is still open, the file and its trace  *)
(* count are as before, and a following read of trace 0 on the same handle    *)
(* succeeds with the samples a read of trace 0 returned before.               *)
C11_ReadPastEndLeavesHandleUsable ==
    [][ /\ ( /\ call'.op = "readtrace"
             /\ call'.traceno = WholeTraces(file)
             /\ WholeTraces(file) >= 1
             /\ WholeFile(file) ) =>
               /\ call'.err \notin {SEGY_OK, Fault}
               /\ pc' = "client"
               /\ fp'.open
               /\ file' = file
               /\ SamplesOf(ReadNow(0).buf) = file.traces[1].data
        /\ ( /\ call.op = "readtrace"
             /\ call.traceno = WholeTraces(file)
             /\ WholeTraces(file) >= 1
             /\ WholeFile(file)
             /\ call'.op = "readtrace"
             /\ call'.traceno = 0 ) =>
               /\ call'.err = SEGY_OK
               /\ SamplesOf(call'.buf) = file.traces[1].data ]_vars

C11_ReadAfterReadPastEnd ==
    /\ call.op = "readtrace"
    /\ call.traceno = WholeTraces(file)
    /\ WholeTraces(file) >= 1
    /\ WholeFile(file)
    /\ call.err = SEGY_FREAD_ERROR
    /\ fp.open
    /\ ReadNow(0).err = SEGY_OK
    /\ SamplesOf(ReadNow(0).buf) = file.traces[1].data

(* C13: writing trace samples to a trace index >= trace_count on a           *)
(* read-write handle fails with an error and leaves the file unchanged: size  *)
(* and trace count are as before, the handle stays open, and a following      *)
(* read of trace 0 returns the original samples.                              *)
C13_WritePastEndIsRefused ==
    [][ /\ ( /\ call'.op = "writetrace"
             /\ call'.traceno >= WholeTraces(file)
             /\ Writable(fp.mode)
             /\ WholeFile(file) ) =>
               /\ call'.err \notin {SEGY_OK, Fault}
               /\ pc' = "client"
               /\ fp'.open
               /\ file'.size = file.size
               /\ WholeTraces(file') = WholeTraces(file)
               /\ file' = file
        /\ ( /\ call.op = "writetrace"
             /\ call.err \notin {SEGY_OK, Fault}
             /\ WholeTraces(file) >= 1
             /\ WholeFile(file)
             /\ call'.op = "readtrace"
             /\ call'.traceno = 0 ) =>
               /\ call'.err = SEGY_OK
               /\ SamplesOf(call'.buf) = file.traces[1].data ]_vars

C18_ReadOnlyHandleRefusesWrites ==
    [][ ( /\ call'.op \in WriteOps
          /\ fp.mode = "rb"
          /\ WholeFile(file) ) =>
            /\ call'.err \notin {SEGY_OK, Fault}
            /\ file' = file ]_vars

----------------------------------------------------------------------------
(* The file object's life cycle *)

\* C15: close is idempotent from every state of the handle. Whatever the
\* client did before, a close leaves the handle closed and raises nothing, no
\* stream is ever closed twice and no region unmapped twice, and a close of a
\* handle that is closed already (never opened, or closed earlier) changes
\* neither the handle, nor the streams and regions, nor the file.
C15_CloseIsIdempotent ==
    [][ /\ \A i \in 1..Len(os'.fclosed) : os'.fclosed[i] <= 1
        /\ \A i \in 1..Len(os'.unmapped) : os'.unmapped[i] <= 1
        /\ call'.op = "close" =>
              /\ fp' = NoHandle
              /\ call'.exc = None
              /\ (~fp.open => os' = os /\ file' = file) ]_vars

\* a mapped handle was closed, and then closed again
C15_ClosedAgainAfterMapping ==
    /\ call.op = "close"
    /\ call.was = "closed"
    /\ os.fclosed = <<1>>
    /\ os.unmapped = <<1>>

Requests == {"flush", "mmap", "read", "write"}

\* C16: while the handle is closed (never opened, or closed earlier) every
\* flush, mmap, read and write request raises IOError, touches no stream, no
\* region and no file, and leaves the handle closed; a request that changes
\* any of them found the handle open.
C16_ClosedHandleRejectsRequests ==
    [][ call'.op \in Requests =>
          /\ (~fp.open =>
                /\ call'.exc = IOError
                /\ fp' = NoHandle
                /\ os' = os
                /\ file' = file)
          /\ (<<fp', os', file'>> # <<fp, os, file>> => fp.open) ]_vars

\* a write request on a handle that was opened and closed before
C16_WriteAfterClose ==
    /\ call.op = "write"
    /\ call.was = "closed"
    /\ call.exc = IOError
    /\ os.fclosed = <<1>>

\* the regions mmap returned that no munmap has released
Live(o) == { i \in 1..Len(o.unmapped) : o.unmapped[i] = 0 }

\* C17: a handle is mapped at most once. There is never more than one live
\* region, and an mmap request on a handle that is mapped already obtains no
\* second region and leaves the recorded address and length as they were.
C17_MappedAtMostOnce ==
    [][ /\ Cardinality(Live(os')) <= 1
        /\ (fp.addr /\ call'.op = "mmap" =>
              /\ os' = os
              /\ fp'.addr
              /\ fp'.fsize = fp.fsize) ]_vars

----------------------------------------------------------------------------
(* Header fields *)

\* the index into the table a byte offset of the client stands for
TableIndex(which, field) ==
    IF which = "trace" THEN field ELSE field - SEGY_TEXT_HEADER_SIZE

\* the width the table records for a byte offset; 0 where it has no entry
TableWidth(which, field) ==
    IF which = "trace"
    THEN IF field \in DOMAIN field_size_table THEN field_size_table[field] ELSE 0
    ELSE IF TableIndex(which, field) \in DOMAIN bfield_size_table
         THEN bfield_size_table[TableIndex(which, field)] ELSE 0

Representable(v, width) == width = 4 \/ v \in -32768..32767

\* C19: for every header buffer, every field the table gives width 2 or 4,
\* and every value a signed integer of that width holds, setting the field
\* succeeds and changes only the width bytes from byte f-1 of the buffer (f
\* the table offset of the field), and a get of the field that follows
\* succeeds and yields the value, sign included; for both tables.
C19_SetThenGetYieldsValue ==
    [][ /\ ( /\ call'.op = "set"
             /\ TableWidth(call'.which, call'.field) \in {2, 4}
             /\ Representable(call'.val, TableWidth(call'.which, call'.field)) )
           => /\ call'.err = SEGY_OK
              /\ \A i \in DOMAIN call.header :
                    i \notin (TableIndex(call'.which, call'.field) - 1)..
                             (TableIndex(call'.which, call'.field) - 2
                                + TableWidth(call'.which, call'.field))
                    => call'.header[i] = call.header[i]
        /\ ( /\ call.op = "set"
             /\ call'.op = "get"
             /\ TableWidth(call.which, call.field) \in {2, 4}
             /\ Representable(call.val, TableWidth(call.which, call.field)) )
           => /\ call'.err = SEGY_OK
              /\ call'.f = call.val ]_vars

\* a negative 16-bit value was set in the binary header and read back
C19_ReadBackNegativeShort ==
    /\ call.op = "get"
    /\ call.filled
    /\ call.which = "bin"
    /\ TableWidth(call.which, call.field) = 2
    /\ call.val = -32768
    /\ call.f = -32768
    /\ call.header # Blank(SEGY_BINARY_HEADER_SIZE)

\* C20: for every byte offset that is not the first byte of a field the
\* table knows (outside the header, or with no entry or width 0 in the
\* table), the get and set accessors of both headers return InvalidField,
\* leave the header buffer and the caller's value as they were, and never
\* read the table outside its bounds.
C20_UnknownOffsetsAreInvalidField ==
    [][ ( /\ call'.op \in {"get", "set"}
          /\ TableWidth(call'.which, call'.field) = 0 )
        => /\ call'.err = SEGY_INVALID_FIELD
           /\ call'.header = call.header
           /\ (call'.op = "get" => call'.f = call'.f0)
           /\ ~call'.oob ]_vars

----------------------------------------------------------------------------
(* C21 *)

\* the exponent field of an IEEE word
IeeeExponent(w) == Int32(shr(shl(w, 1), 24))

\* the IBM word has a fraction whose first hexadecimal digit is not zero
Normalized(x) == x[2] >= 16

\* the IBM word is a zero of either sign
IbmZero(x) == x \in {<<0, 0, 0, 0>>, <<128, 0, 0, 0>>}

\* C21 (as stated): every IBM word that does not decode to an IEEE infinity
\* or NaN comes back from ieee2ibm(ibm2ieee(x)) exactly as it was.
C21_EveryWordRoundTrips ==
    (call.op = "ieee2ibm" /\ IeeeExponent(call.ieee) # 255) =>
        call.back = call.x

\* C21 (amended): an IBM word that is normalized and decodes to a normal IEEE
\* number, or that is a zero of either sign, comes back from
\* ieee2ibm(ibm2ieee(x)) exactly as it was; 0x41100000 decodes to the bits of
\* 1.0 (0x3F800000) and comes back as 0x41100000, and 0xC2080000 decodes to
\* the bits of -8.0 (0xC1000000).
C21_NormalizedWordsInRangeRoundTrip ==
    /\ ( /\ call.op = "ieee2ibm"
         /\ \/ Normalized(call.x) /\ IeeeExponent(call.ieee) \in 1..254
            \/ IbmZero(call.x) ) => call.back = call.x
    /\ (call.op # "none" /\ call.x = <<65, 16, 0, 0>>) =>
          call.ieee = Uint32(1065353216)
    /\ (call.op = "ieee2ibm" /\ call.x = <<65, 16, 0, 0>>) =>
          call.back = <<65, 16, 0, 0>>
    /\ (call.op # "none" /\ call.x = <<194, 8, 0, 0>>) =>
          call.ieee = Uint32(-1056964608)

\* 1.0 went there and back
C21_OneWentThereAndBack ==
    /\ call.op = "ieee2ibm"
    /\ call.x = <<65, 16, 0, 0>>
    /\ call.ieee = Uint32(1065353216)
    /\ call.back = call.x

----------------------------------------------------------------------------
(* C22, C28 *)

Given(buf) ==
    [i \in 1..SEGY_TEXT_HEADER_SIZE |-> IF i <= Len(buf) THEN buf[i] ELSE 0]

\* C28: reading the text header transcodes all SEGY_TEXT_HEADER_SIZE bytes
\* read, whatever they are, and writing it, from the C interface or from
\* puttext, transcodes and writes exactly SEGY_TEXT_HEADER_SIZE bytes, reads
\* nothing behind the caller's buffer and stores nothing behind the staging
\* buffer.
C28_TextHeadersAreFixedSize ==
    /\ (call.op = "read" /\ call.err = SEGY_OK) =>
          \A i \in 1..SEGY_TEXT_HEADER_SIZE :
             call.buf[i] = e2a[file.text[0][i] + 1]
    /\ call.op \in {"write", "puttext"} =>
          /\ call.overread = 0
          /\ call.overrun = 0
          /\ call.err = SEGY_OK =>
                \A i \in 1..SEGY_TEXT_HEADER_SIZE :
                   file.text[0][i] = a2e[Given(call.buf)[i] + 1]

----------------------------------------------------------------------------
(* C23 *)

\* the interval of the binary header and of the first trace header
IntervalB == BinField(file.bin, "Interval")
IntervalT == file.traces[1].hdr[TRACE_SAMPLE_INTERVAL]

\* C23: when segy_sample_interval returns SEGY_OK the caller's double holds
\* the one interval that is not zero, or the interval both headers agree on,
\* in milliseconds, and zero when both intervals are zero.
C23_IntervalIsDecidedByTheHeaders ==
    (call.op = "sample_interval" /\ call.err = SEGY_OK) =>
       /\ (IntervalB = 0 /\ IntervalT # 0) => call.dt = Ms(IntervalT)
       /\ (IntervalT = 0 /\ IntervalB # 0) => call.dt = Ms(IntervalB)
       /\ (IntervalB = IntervalT /\ IntervalB # 0) => call.dt = Ms(IntervalB)
       /\ (IntervalB = 0 /\ IntervalT = 0) => call.dt = Ms(0)

----------------------------------------------------------------------------
(* C24, C29 *)

\* C24: no error is swallowed.  When a step inside a library operation
\* fails (the read of a header in segy_offsets and segy_line_indices, the
\* flush in segy_close), the operation returns the error code of that step:
\* never SEGY_OK, never another code.
C24_ErrorsReachTheCaller ==
    call.step # SEGY_OK => call.err = call.step

\* C29: segy_flush on a mapped handle calls msync first and fflush after it;
\* segy_close flushes, unmaps a mapped handle, closes the stream and frees
\* the handle, in this order and whether or not the flush failed, and when it
\* has returned no region mmap gave to the handle is still mapped and its
\* stream has been closed, once.
C29_CloseReleasesEverything ==
    /\ (call.op = "flush" /\ fp.addr) =>
          /\ call.steps[1] = "msync"
          /\ call.err # syncerr => call.steps = <<"msync", "fflush">>
    /\ call.op = "close" =>
          /\ \E flushed \in {<<"msync", "fflush">>, <<"msync">>, <<"fflush">>} :
                call.steps = flushed
                   \o (IF Len(os.unmapped) > 0 THEN <<"munmap">> ELSE <<>>)
                   \o <<"fclose", "free">>
          /\ Live(os) = {}
          /\ os.fclosed = <<1>>

----------------------------------------------------------------------------
(* C25 *)

\* the trace at which C25 has the offset walk stop: the first after trace 0
\* whose offset is not trace 0's, the last trace when the end of the file is
\* reached first
StopAtOtherOffset(f) ==
    LET S == { j \in 1..(WholeTraces(f) - 1) :
                 HdrOf(f, j, offset) # HdrOf(f, 0, offset) }
    IN IF S # {} THEN Least(S) ELSE WholeTraces(f) - 1

----------------------------------------------------------------------------
(* C26, C30 *)

\* C26: where long is narrower than the 64-bit byte position, a successful
\* segy_seek on a buffered handle leaves the stream at trace0 + i*B for every
\* trace number i >= 0, also where that position is LONG_MAX or more, and the
\* seek that ends the call is asked to move by no more than LONG_MAX, the
\* skips of LONG_MAX before it having taken the rest.
C26_NarrowSeekReachesFarPositions ==
    (call.op = "seek" /\ call.traceno >= 0 /\ platform.long = 32
        /\ call.b.err = SEGY_OK) =>
        /\ fp.pos = ExactPos(call.traceno, file)
        /\ GeqS64(LONG_MAX_32, call.b.asked)

\* C30: whatever int a trace number arrives as in segy_seek, negative ones
\* (the unsigned numbers 2^31 and above) included, a seek that returns OK
\* leaves neither the stream nor the cursor of the mapping below trace0.
C30_NoSeekEndsBeforeTheFirstTrace ==
    call.op = "seek" =>
        /\ call.b.err = SEGY_OK => GeqS64(fp.pos, S64(Trace0Of(file)))
        /\ (fm.addr /\ call.m.err = SEGY_OK) => fm.cur >= Trace0Of(file)
        /\ (~fm.addr /\ call.m.err = SEGY_OK) =>
               GeqS64(fm.pos, S64(Trace0Of(file)))

----------------------------------------------------------------------------
(* C27 *)

\* the traces C27 has a line consist of
LineTraces(a) ==
    { a.line_trace0 + k * a.stride * a.offsets : k \in 0..(a.line_length - 1) }

\* the samples of a line's buffers, one after the other
RECURSIVE Flat(_)
Flat(bufs) == IF bufs = <<>> THEN <<>> ELSE Head(bufs).data \o Flat(Tail(bufs))

\* C27: segy_write_line and segy_read_line, given the same line_trace0,
\* line_length, stride and offsets (any offsets >= 1, any line_trace0), go to
\* the same traces line_trace0 + k*stride*offsets, 0 <= k < line_length:
\* the write and the read succeed, the read returns the buffer that was
\* written, and every trace outside that set is as it was before the write.
C27_ReadLineReturnsWrittenLine ==
    pc \in {"written", "read", "killed"} =>
       /\ insp.err = SEGY_OK
       /\ WholeTraces(file) = WholeTraces(insp.before)
       /\ \A t \in 0..(WholeTraces(insp.before) - 1) :
             t \notin LineTraces(insp) =>
                file.traces[t + 1] = insp.before.traces[t + 1]
       /\ pc = "read" => call.err = SEGY_OK /\ call.buf = Flat(insp.buf)
====
